---- MODULE Spec2Model ----
(***************************************************************************)
(* The simulation engine of the bow shooter (GameCanvas: the session state *)
(* `s`, the click handler `shoot`, the mouse-move handler and the          *)
(* per-frame `loop`), with the host's HUD state and game-over callback,    *)
(* and the host's screens and leaderboard (Index).                         *)
(*                                                                         *)
(* Numbers.  Positions and velocities are whole pixels (the code's floats  *)
(* are sampled on the pixel grid: every random draw is an input taken from *)
(* a small set of values the draw can produce).  Player health is kept in  *)
(* units of 1/10000 HP, so that damage x playerDamageMult x 0.017 is an    *)
(* integer.  reloadProgress is kept as a numerator over diff.reloadTime.   *)
(* Particles, floating texts, the trail, the bow pulse and the screen      *)
(* shake are drawn but never read by the simulation; they are left out.    *)
(***************************************************************************)
EXTENDS Integers, Sequences, FiniteSets, Bags, TLC

VARIABLES
    difficulty,   \* the `difficulty` prop of the mounted canvas
    s,            \* the session state object `s` (useRef(...).current)
    mousePos,     \* mousePos.current
    hudState,     \* the host's hudState: the snapshot last given to onStateChange
    gameOverLog,  \* the scores passed to onGameOver, in call order
    rafPending,   \* how many calls of `loop` are requested with requestAnimationFrame
    steps,        \* how many times `loop` has run in this behaviour
    ev,           \* what the last run of shoot or loop did (history, read by the properties)
    screen,       \* the host's `screen`; the canvas is mounted while it is "game"
    leaderboard,  \* the host's `leaderboard`
    stored,       \* localStorage's neon_archer_lb: whether it is there, and its entries
    lastScore,    \* the host's `lastScore`
    lastWave,     \* the host's `lastWave`
    playerName,   \* the host's `playerName`
    saves         \* how many times saveScore has run in this behaviour

\* The host state that the canvas never writes.
host == <<screen, leaderboard, stored, lastScore, lastWave, playerName, saves>>

vars == <<difficulty, s, mousePos, hudState, gameOverLog, rafPending, steps, ev, host>>

----------------------------------------------------------------------------
(* Bounds of the model *)

MaxSteps == 16
MaxEnemies == 3
\* What Math.random() * 30 adds to the life of the particles of a handler run
\* when a behaviour does not follow that draw, in hundredths of a step.
MidDraw == 1500

----------------------------------------------------------------------------
(* Program constants *)

W == 200
H == 200
HpUnit == 10000
DamageFactor == 17
BowRadius == 22
BombRadius == 180
OutMargin == 220
SpawnMargin == 60
ProjectileSpeed == 15
ProjectileRadius == 4
PierceRadius == 5
ProjectileMargin == 80
WaveLength == 700
WaveAnnounceTime == 150
MinSpawnRate == 35
SpawnRateStep == 6
ComboWindow == 90
PowerupTime == 360
PowerupLife == 360
PowerupRadius == 16
PickupTolerance == 20
FirstPowerupKill == 10
ShootCooldown == 12
RapidCooldown == 4
ZigzagPeriod == 35
\* The lives of particles are kept in hundredths of a step.
LifeUnit == 100
SparkLife == 35 * LifeUnit
RingLife == 50 * LifeUnit
RingSize == 30
FloatLife == 55

Difficulties == {"easy", "normal", "hard"}

DIFFICULTY ==
    [d \in Difficulties |->
        CASE d = "easy"   -> [spawnRate |-> 180, enemySpeedMult10 |-> 7,
                              playerDamageMult10 |-> 6, maxArrows |-> 12, reloadTime |-> 150]
          [] d = "normal" -> [spawnRate |-> 110, enemySpeedMult10 |-> 10,
                              playerDamageMult10 |-> 10, maxArrows |-> 8, reloadTime |-> 180]
          [] d = "hard"   -> [spawnRate |-> 65, enemySpeedMult10 |-> 14,
                              playerDamageMult10 |-> 14, maxArrows |-> 5, reloadTime |-> 220]]

diff == DIFFICULTY[difficulty]

\* speed10 is the template speed in tenths of a pixel per step.
ENEMY_TYPES ==
    << [id |-> "scout",     maxHp |-> 1, speed10 |-> 25, damage |-> 10, radius |-> 14,
        points |-> 10, pattern |-> "straight"],
       [id |-> "tank",      maxHp |-> 5, speed10 |-> 10, damage |-> 25, radius |-> 24,
        points |-> 40, pattern |-> "straight"],
       [id |-> "zigzagger", maxHp |-> 2, speed10 |-> 20, damage |-> 15, radius |-> 16,
        points |-> 25, pattern |-> "zigzag"],
       [id |-> "ghost",     maxHp |-> 3, speed10 |-> 18, damage |-> 20, radius |-> 18,
        points |-> 35, pattern |-> "teleport"],
       [id |-> "splitter",  maxHp |-> 4, speed10 |-> 15, damage |-> 18, radius |-> 20,
        points |-> 50, pattern |-> "straight"],
       [id |-> "berserker", maxHp |-> 3, speed10 |-> 35, damage |-> 30, radius |-> 17,
        points |-> 60, pattern |-> "chase"],
       [id |-> "bouncer",   maxHp |-> 3, speed10 |-> 22, damage |-> 15, radius |-> 15,
        points |-> 45, pattern |-> "bounce"] >>

PowerupTypes == <<"multi", "pierce", "rapid", "bomb">>

----------------------------------------------------------------------------
(* Arithmetic helpers *)

Max(a, b) == IF a >= b THEN a ELSE b
Min(a, b) == IF a <= b THEN a ELSE b
Abs(a) == IF a >= 0 THEN a ELSE -a

RECURSIVE Gcd(_, _)
Gcd(a, b) == IF b = 0 THEN a ELSE Gcd(b, a % b)

RECURSIVE IsqrtIn(_, _, _)
IsqrtIn(n, lo, hi) ==
    IF lo >= hi THEN lo
    ELSE LET mid == (lo + hi + 1) \div 2
         IN  IF mid * mid <= n THEN IsqrtIn(n, mid, hi) ELSE IsqrtIn(n, lo, mid - 1)

\* floor(sqrt(n)) for 0 <= n < 2^30
Isqrt(n) == IsqrtIn(n, 0, 32767)

\* Math.round(a / b) for b > 0: halves go up
RoundDiv(a, b) == (2 * a + b) \div (2 * b)

Dist2(x1, y1, x2, y2) == (x1 - x2) * (x1 - x2) + (y1 - y2) * (y1 - y2)

\* Math.sqrt(dx*dx + dy*dy) < r, on whole numbers
Within(x1, y1, x2, y2, r) == Dist2(x1, y1, x2, y2) < r * r

cx == W \div 2
cy == H \div 2

----------------------------------------------------------------------------
(* Entity model *)

\* The point `along` pixels along edge `side`, SpawnMargin outside the canvas.
EdgePoint(side, along) ==
    CASE side = 0 -> [x |-> along, y |-> -SpawnMargin]
      [] side = 1 -> [x |-> W + SpawnMargin, y |-> along]
      [] side = 2 -> [x |-> along, y |-> H + SpawnMargin]
      [] side = 3 -> [x |-> -SpawnMargin, y |-> along]

\* The direction of atan2(canvasH/2 - y, canvasW/2 - x), as the shortest whole vector.
AimDir(p) ==
    LET dx == cx - p.x
        dy == cy - p.y
        g  == Gcd(Abs(dx), Abs(dy))
    IN  [x |-> dx \div g, y |-> dy \div g]

\* |(vx, vy)| in hundredths of a pixel, rounded down.
Speed100(vx, vy) == Isqrt(10000 * (vx * vx + vy * vy))

\* base = template speed x speed scale, in 1/10000 pixel.  The velocity the draw
\* speed = type.speed * (0.85 + Math.random() * 0.3) gives has a length in
\* [0.85, 1.15) x base; a whole velocity is taken only when its length is inside.
SpeedInRange(vx, vy, base) ==
    /\ Speed100(vx, vy) * 10000 >= 85 * base
    /\ (Speed100(vx, vy) + 1) * 10000 < 115 * base

\* The scale the spawner applies to speed, vx and vy (1 when it applies none) x 1000.
NoScale == 1000
SpawnScale(wave) == diff.enemySpeedMult10 * (100 + 4 * wave)

\* A draw of createEnemy: the edge, the place along it, the length of the
\* velocity in multiples of the aim direction, and the teleport countdown.
DrawOk(type, scale, d) ==
    LET a == AimDir(EdgePoint(d.side, d.along))
    IN  SpeedInRange(d.k * a.x, d.k * a.y, type.speed10 * scale)

NoPos == [x |-> -1000, y |-> -1000]

\* createEnemy(type, W, H, overrides?) with the spawner's speed scaling folded
\* in: `at` is the overriding position (NoPos: none).  teleportTimer is read
\* only by the teleport pattern and is kept 0 for the others.
createEnemy(type, scale, d, at) ==
    LET p == EdgePoint(d.side, d.along)
        a == AimDir(p)
    IN  [id |-> type.id, maxHp |-> type.maxHp, damage |-> type.damage,
         radius |-> type.radius, points |-> type.points, pattern |-> type.pattern,
         hp |-> type.maxHp,
         x |-> IF at = NoPos THEN p.x ELSE at.x,
         y |-> IF at = NoPos THEN p.y ELSE at.y,
         vx |-> d.k * a.x, vy |-> d.k * a.y,
         speed |-> Speed100(d.k * a.x, d.k * a.y),
         zigzagTimer |-> 0,
         teleportTimer |-> IF type.pattern = "teleport" THEN d.tp ELSE 0,
         splitDone |-> FALSE,
         hits |-> 0, hitBy |-> {}]

----------------------------------------------------------------------------
(* Session state *)

\* The state object after the effect's "Reset state" block.
ResetState(d) ==
    [hp |-> 100 * HpUnit, score |-> 0, wave |-> 1,
     arrows |-> DIFFICULTY[d].maxArrows, maxArrows |-> DIFFICULTY[d].maxArrows,
     reloading |-> FALSE, reloadProgress |-> 0, reloadTimer |-> 0,
     spawnTimer |-> 0, waveTimer |-> 0,
     enemies |-> <<>>, projectiles |-> <<>>, powerups |-> <<>>,
     particles |-> EmptyBag, floats |-> <<>>,
     alive |-> TRUE, shootCooldown |-> 0,
     combo |-> 0, comboTimer |-> 0, killStreak |-> 0,
     activePowerup |-> "null", powerupTimer |-> 0, waveAnnounce |-> 0,
     totalKills |-> 0, nextPowerupKill |-> FirstPowerupKill]

\* The object emitState hands to onStateChange.
Snapshot(st) ==
    [hp |-> st.hp, maxHp |-> 100 * HpUnit, score |-> st.score, wave |-> st.wave,
     arrows |-> st.arrows, maxArrows |-> st.maxArrows,
     reloading |-> st.reloading, reloadProgress |-> st.reloadProgress,
     combo |-> st.combo, killStreak |-> st.killStreak]

\* The host's first hudState.
InitialHud ==
    [hp |-> 100 * HpUnit, maxHp |-> 100 * HpUnit, score |-> 0, wave |-> 1,
     arrows |-> 8, maxArrows |-> 8, reloading |-> FALSE, reloadProgress |-> 0]

\* What a handler has done so far (history; the code keeps none of it).
NoEv ==
    [kind |-> "init", ran |-> FALSE, fired |-> 0, bombed |-> FALSE, emits |-> 0,
     reloadStarted |-> FALSE, reloadDone |-> FALSE, progressAtDone |-> 0,
     contacts |-> <<>>, kills |-> <<>>, hits |-> <<>>, skips |-> <<>>, marked |-> {},
     before |-> 0, offspring |-> <<>>, bounces |-> <<>>,
     waveUp |-> FALSE, spawned |-> 0, blasted |-> 0, picked |-> <<>>,
     atRemoval |-> <<>>, teleports |-> <<>>]

\* The working state of one handler run: the session state, the HUD state
\* the host holds, the game-over calls made, the handler's history, and `rnd`,
\* what Math.random() * 30 adds to the life of the particles the run creates.
Ctx(st, hud, log, e) ==
    [s |-> st, hud |-> hud, log |-> log, ev |-> e, dead |-> <<>>, deadP |-> {}, rnd |-> MidDraw]

emitState(c) == [c EXCEPT !.hud = Snapshot(c.s), !.ev.emits = @ + 1]

\* spawnParticles(x, y, color, count): `count` particles of life
\* 35 + Math.random() * 30.  s.particles is kept as the bag of its particles,
\* a particle as its life, its maxLife and the count of steps at its creation
\* (`born`, history); place, velocity, colour and radius are only drawn.
spawnParticles(c, count) ==
    [c EXCEPT !.s.particles =
        @ (+) [p \in {[life |-> SparkLife + c.rnd, maxLife |-> 65, born |-> steps]} |-> count]]

\* addFloat(x, y, text, color, big): a floating text is kept as its life and
\* the count of steps at its creation (`born`, history).
addFloat(c) == [c EXCEPT !.s.floats = Append(@, [life |-> FloatLife, born |-> steps])]

----------------------------------------------------------------------------
(* Sequences *)

RECURSIVE RemoveAllAscending(_, _)
\* seq.splice(i, 1) for every i of idxs, smallest index first.
RemoveAllAscending(seq, idxs) ==
    IF idxs = {} THEN seq
    ELSE LET i == CHOOSE j \in idxs : \A k \in idxs : j <= k
         IN  RemoveAllAscending(SubSeq(seq, 1, i - 1) \o SubSeq(seq, i + 1, Len(seq)),
                                idxs \ {i})

RECURSIVE RemoveAll(_, _)
\* seq.splice(i, 1) for every i of idxs, largest index first.
RemoveAll(seq, idxs) ==
    IF idxs = {} THEN seq
    ELSE LET i == CHOOSE j \in idxs : \A k \in idxs : k <= j
         IN  RemoveAll(SubSeq(seq, 1, i - 1) \o SubSeq(seq, i + 1, Len(seq)), idxs \ {i})

Range(seq) == {seq[i] : i \in 1..Len(seq)}

RECURSIVE SumOver(_, _)
SumOver(f, idxs) ==
    IF idxs = {} THEN 0
    ELSE LET i == CHOOSE j \in idxs : TRUE IN f[i] + SumOver(f, idxs \ {i})

----------------------------------------------------------------------------
(* shoot *)

\* A blast that reaches every enemy on the board.
BombKilledAll(st, mp) == 1..Len(st.enemies)

\* The enemies spawnBombExplosion kills: those nearer than 180 to the pointer.
BombKilled(st, mp) ==
    {i \in 1..Len(st.enemies) :
        Within(st.enemies[i].x, st.enemies[i].y, mp.x, mp.y, BombRadius)}

RECURSIVE BlastEffects(_, _)
\* The particles and the floating text of each of the n enemies a blast kills.
BlastEffects(c, n) ==
    IF n = 0 THEN c ELSE BlastEffects(addFloat(spawnParticles(c, 12)), n - 1)

\* The blast, and the ring of 30 particles of life 50 + Math.random() * 30.
spawnBombExplosion(c, mp) ==
    LET st     == c.s
        killed == BombKilled(st, mp)
        gain   == SumOver([i \in 1..Len(st.enemies) |-> st.enemies[i].points * st.wave], killed)
        c1     == [c EXCEPT !.s.score = @ + gain,
                            !.s.totalKills = @ + Cardinality(killed),
                            !.s.enemies = RemoveAll(st.enemies, killed),
                            !.ev.bombed = TRUE, !.ev.blasted = Cardinality(killed)]
        c2     == BlastEffects(c1, Cardinality(killed))
    IN  [c2 EXCEPT !.s.particles =
            @ (+) [p \in {[life |-> RingLife + c.rnd, maxLife |-> 80, born |-> steps]} |-> RingSize]]

\* (Math.cos(a) * speed, Math.sin(a) * speed) with a = atan2(dy, dx) + o * 0.18,
\* rounded to whole pixels (cos 0.18 = 0.9838, sin 0.18 = 0.1790).
Aim(dx, dy, o) ==
    LET d100 == Isqrt(10000 * (dx * dx + dy * dy))
        co   == IF o = 0 THEN 10000 ELSE 9838
        si   == o * 1790
    IN  [vx |-> RoundDiv(ProjectileSpeed * (dx * co - dy * si), d100 * 100),
         vy |-> RoundDiv(ProjectileSpeed * (dx * si + dy * co), d100 * 100)]

\* The projectile shoot pushes.  `shot` names it: the count of steps at the
\* shot and its place in the volley (history; the code keeps none of it).
NewProjectile(dx, dy, o, isPierce) ==
    [x |-> cx, y |-> cy, vx |-> Aim(dx, dy, o).vx, vy |-> Aim(dx, dy, o).vy,
     radius |-> IF isPierce THEN PierceRadius ELSE ProjectileRadius,
     piercing |-> isPierce, shot |-> <<steps, o>>]

\* shoot with the early return on reloading and on an empty quiver left out.
ShootBlockedByCooldownOnly(st) == ~st.alive \/ st.shootCooldown > 0

\* The early returns of shoot, before the pointer is read.
ShootBlocked(st) ==
    \/ ~st.alive \/ st.reloading \/ st.arrows <= 0
    \/ st.shootCooldown > 0

\* The cooldown of rapid fire whatever the power-up.
CooldownOfRapid(st) == RapidCooldown

\* The cooldown a shot sets.
CooldownOf(st) == IF st.activePowerup = "rapid" THEN RapidCooldown ELSE ShootCooldown

\* The shot with a single projectile whatever the power-up.
FireSingle(c, mp) ==
    LET st == c.s
        dx == mp.x - cx
        dy == mp.y - cy
        isPierce == st.activePowerup = "pierce"
        shots    == <<NewProjectile(dx, dy, 0, isPierce)>>
    IN  IF st.activePowerup = "bomb"
        THEN [spawnBombExplosion(c, mp) EXCEPT !.s.activePowerup = "null", !.s.powerupTimer = 0]
        ELSE [c EXCEPT !.s.projectiles = @ \o shots, !.ev.fired = Len(shots)]

\* The body of shoot after its early returns: bomb or projectiles.
Fire(c, mp) ==
    LET st == c.s
        dx == mp.x - cx
        dy == mp.y - cy
        isPierce == st.activePowerup = "pierce"
        isMulti  == st.activePowerup = "multi"
        angles   == IF isMulti THEN <<-1, 0, 1>> ELSE <<0>>
        shots    == [i \in 1..Len(angles) |-> NewProjectile(dx, dy, angles[i], isPierce)]
    IN  IF st.activePowerup = "bomb"
        THEN [spawnBombExplosion(c, mp) EXCEPT !.s.activePowerup = "null", !.s.powerupTimer = 0]
        ELSE [c EXCEPT !.s.projectiles = @ \o shots, !.ev.fired = Len(shots)]

\* s.arrows-- and the cooldown, without the start of the reload.
SpendArrowNoReload(c, cooldown) ==
    [c EXCEPT !.s.arrows = @ - 1, !.s.shootCooldown = cooldown]

\* s.arrows--, the cooldown, and the start of the reload when the quiver is empty.
SpendArrow(c, cooldown) ==
    LET c1 == [c EXCEPT !.s.arrows = @ - 1, !.s.shootCooldown = cooldown]
    IN  IF c1.s.arrows <= 0
        THEN [c1 EXCEPT !.s.reloading = TRUE, !.s.reloadTimer = diff.reloadTime,
                        !.s.reloadProgress = 0, !.ev.reloadStarted = TRUE]
        ELSE c1

\* shoot with the test of the pointer at the centre placed after the bomb branch.
shootRunBombFirst(c, mp) ==
    IF ShootBlocked(c.s) THEN c
    ELSE IF mp.x = cx /\ mp.y = cy /\ c.s.activePowerup # "bomb" THEN c
    ELSE emitState(SpendArrow([Fire(c, mp) EXCEPT !.ev.ran = TRUE], CooldownOf(c.s)))

shootRun(c, mp) ==
    IF ShootBlocked(c.s) THEN c
    ELSE IF mp.x = cx /\ mp.y = cy THEN c
    ELSE emitState(SpendArrow([Fire(c, mp) EXCEPT !.ev.ran = TRUE], CooldownOf(c.s)))

----------------------------------------------------------------------------
(* loop: timers *)

\* spawnTimer++, waveTimer++, the wave increment and the announce countdown.
WaveTick(c) ==
    LET c1 == [c EXCEPT !.s.spawnTimer = @ + 1, !.s.waveTimer = @ + 1]
        c2 == IF c1.s.waveTimer > WaveLength
              THEN emitState([c1 EXCEPT !.s.wave = @ + 1, !.s.waveTimer = 0,
                                        !.s.waveAnnounce = WaveAnnounceTime,
                                        !.ev.waveUp = TRUE])
              ELSE c1
    IN  IF c2.s.waveAnnounce > 0 THEN [c2 EXCEPT !.s.waveAnnounce = @ - 1] ELSE c2

SpawnRate(st) == Max(MinSpawnRate, diff.spawnRate - st.wave * SpawnRateStep)

\* The whole table, whatever the wave.
PoolAll(st) == 1..Len(ENEMY_TYPES)

\* The archetypes the spawner draws from, as indexes of ENEMY_TYPES.
Pool(st) == 1..Min(st.wave + 1, Len(ENEMY_TYPES))

SpawnTick(c, r) ==
    IF c.s.spawnTimer >= SpawnRate(c.s)
    THEN [c EXCEPT !.s.spawnTimer = 0,
                   !.s.enemies = Append(@, createEnemy(ENEMY_TYPES[r.ti],
                                                       SpawnScale(c.s.wave), r.spawn, NoPos)),
                   !.ev.spawned = r.ti]
    ELSE c

\* The reload finishing one step early (reloadTimer <= 1).
ReloadTickOneEarly(c) ==
    IF c.s.reloading
    THEN LET c1 == [c EXCEPT !.s.reloadTimer = @ - 1,
                             !.s.reloadProgress = diff.reloadTime - (c.s.reloadTimer - 1)]
             c2 == IF c1.s.reloadTimer <= 1
                   THEN [spawnParticles(c1, 8) EXCEPT !.s.reloading = FALSE, !.s.arrows = c1.s.maxArrows,
                                   !.s.reloadProgress = 0,
                                   !.ev.reloadDone = TRUE,
                                   !.ev.progressAtDone = c1.s.reloadProgress]
                   ELSE c1
         IN  emitState(c2)
    ELSE c

\* The reload leaving reloadProgress at 1 when it finishes.
ReloadTickKeepsProgress(c) ==
    IF c.s.reloading
    THEN LET c1 == [c EXCEPT !.s.reloadTimer = @ - 1,
                             !.s.reloadProgress = diff.reloadTime - (c.s.reloadTimer - 1)]
             c2 == IF c1.s.reloadTimer <= 0
                   THEN [spawnParticles(c1, 8) EXCEPT !.s.reloading = FALSE, !.s.arrows = c1.s.maxArrows,
                                   !.ev.reloadDone = TRUE,
                                   !.ev.progressAtDone = c1.s.reloadProgress]
                   ELSE c1
         IN  emitState(c2)
    ELSE c

\* The "Reload" block of loop.  reloadProgress = 1 - reloadTimer / reloadTime is
\* kept as the numerator reloadTime - reloadTimer.
ReloadTick(c) ==
    IF c.s.reloading
    THEN LET c1 == [c EXCEPT !.s.reloadTimer = @ - 1,
                             !.s.reloadProgress = diff.reloadTime - (c.s.reloadTimer - 1)]
             c2 == IF c1.s.reloadTimer <= 0
                   THEN [spawnParticles(c1, 8) EXCEPT !.s.reloading = FALSE, !.s.arrows = c1.s.maxArrows,
                                   !.s.reloadProgress = 0,
                                   !.ev.reloadDone = TRUE,
                                   !.ev.progressAtDone = c1.s.reloadProgress]
                   ELSE c1
         IN  emitState(c2)
    ELSE c

CooldownTick(c) ==
    IF c.s.shootCooldown > 0 THEN [c EXCEPT !.s.shootCooldown = @ - 1] ELSE c

\* The combo countdown running out without resetting the combo.
ComboDecayKeepsCombo(c) ==
    IF c.s.comboTimer > 0 THEN [c EXCEPT !.s.comboTimer = @ - 1] ELSE c

\* The "Combo decay" block of loop.
ComboDecay(c) ==
    IF c.s.comboTimer > 0
    THEN LET c1 == [c EXCEPT !.s.comboTimer = @ - 1]
         IN  IF c1.s.comboTimer = 0 THEN emitState([c1 EXCEPT !.s.combo = 0]) ELSE c1
    ELSE c

\* The power-up countdown running out without clearing the power-up.
PowerupTimerTickKeepsKind(c) ==
    IF c.s.powerupTimer > 0 THEN [c EXCEPT !.s.powerupTimer = @ - 1] ELSE c

\* The "Active powerup timer" block of loop.
PowerupTimerTick(c) ==
    IF c.s.powerupTimer > 0
    THEN LET c1 == [c EXCEPT !.s.powerupTimer = @ - 1]
         IN  IF c1.s.powerupTimer = 0 THEN [c1 EXCEPT !.s.activePowerup = "null"] ELSE c1
    ELSE c

PowerupLifeTick(c) ==
    LET aged == [i \in 1..Len(c.s.powerups) |-> [c.s.powerups[i] EXCEPT !.life = @ - 1]]
    IN  [c EXCEPT !.s.powerups = SelectSeq(aged, LAMBDA p : p.life > 0)]

----------------------------------------------------------------------------
(* loop: enemy update *)

\* (vx, vy) turned to the length speed (hundredths of a pixel), in whole pixels.
Renorm(vx, vy, speed) ==
    LET len == Speed100(vx, vy)
    IN  IF len = 0 THEN [vx |-> vx, vy |-> vy]
        ELSE [vx |-> RoundDiv(vx * speed, len), vy |-> RoundDiv(vy * speed, len)]

\* The zigzag kick: (v / speed + perp * flip * 1.8) * speed * 0.65, renormalised.
ZigzagKick(e, flip) ==
    LET n == Renorm(10 * e.vx - 18 * flip * e.vy, 10 * e.vy + 18 * flip * e.vx, e.speed)
    IN  [e EXCEPT !.vx = n.vx, !.vy = n.vy]

\* The chase acceleration: v += (to centre / d) * speed * 0.08, capped at speed.
\* Worked in hundredths of a pixel and rounded back to whole pixels.
ChaseTurn(e) ==
    LET dx  == cx - e.x
        dy  == cy - e.y
        d   == Speed100(dx, dy)
        wx  == 100 * e.vx + (IF d = 0 THEN 0 ELSE RoundDiv(dx * e.speed * 8, d))
        wy  == 100 * e.vy + (IF d = 0 THEN 0 ELSE RoundDiv(dy * e.speed * 8, d))
        cur == Isqrt(wx * wx + wy * wy)
    IN  IF cur > e.speed
        THEN [e EXCEPT !.vx = RoundDiv(wx * e.speed, cur * 100),
                       !.vy = RoundDiv(wy * e.speed, cur * 100)]
        ELSE [e EXCEPT !.vx = RoundDiv(wx, 100), !.vy = RoundDiv(wy, 100)]

Advance(e) == [e EXCEPT !.x = e.x + e.vx, !.y = e.y + e.vy]

\* The bounce turning the enemy away from the screen.
BounceOutward(e) ==
    LET vx1 == IF e.x - e.radius < 0 THEN -Abs(e.vx) ELSE e.vx
        vx2 == IF e.x + e.radius > W THEN Abs(vx1) ELSE vx1
        vy1 == IF e.y - e.radius < 0 THEN -Abs(e.vy) ELSE e.vy
        vy2 == IF e.y + e.radius > H THEN Abs(vy1) ELSE vy1
    IN  [e EXCEPT !.vx = vx2, !.vy = vy2]

\* case 'bounce', after the move.
Bounce(e) ==
    LET vx1 == IF e.x - e.radius < 0 THEN Abs(e.vx) ELSE e.vx
        vx2 == IF e.x + e.radius > W THEN -Abs(vx1) ELSE vx1
        vy1 == IF e.y - e.radius < 0 THEN Abs(e.vy) ELSE e.vy
        vy2 == IF e.y + e.radius > H THEN -Abs(vy1) ELSE vy1
    IN  [e EXCEPT !.vx = vx2, !.vy = vy2]

\* The teleport taking the whole of the fresh createEnemy(e, W, H).
TeleportAsNewEnemy(e, r) ==
    LET e1 == [Advance(e) EXCEPT !.teleportTimer = @ - 1]
        p  == EdgePoint(r.tpSide, r.tpAlong)
    IN  IF e1.teleportTimer <= 0
        THEN [e1 EXCEPT !.teleportTimer = r.tpNext, !.x = p.x, !.y = p.y,
                        !.hp = e.maxHp, !.vx = AimDir(p).x, !.vy = AimDir(p).y]
        ELSE e1

\* The teleport: a new countdown, and the position of a fresh createEnemy(e, W, H).
Teleport(e, r) ==
    LET e1 == [Advance(e) EXCEPT !.teleportTimer = @ - 1]
    IN  IF e1.teleportTimer <= 0
        THEN [e1 EXCEPT !.teleportTimer = r.tpNext,
                        !.x = EdgePoint(r.tpSide, r.tpAlong).x,
                        !.y = EdgePoint(r.tpSide, r.tpAlong).y]
        ELSE e1

\* The switch on e.pattern.  No archetype has the spiral or the split pattern.
MoveEnemy(e, r) ==
    CASE e.pattern = "straight" -> Advance(e)
      [] e.pattern = "zigzag" ->
            LET e1 == Advance([e EXCEPT !.zigzagTimer = @ + 1])
            IN  IF e1.zigzagTimer % ZigzagPeriod = 0 THEN ZigzagKick(e1, r.flip) ELSE e1
      [] e.pattern = "chase" -> Advance(ChaseTurn(e))
      [] e.pattern = "teleport" -> Teleport(e, r)
      [] e.pattern = "bounce" -> Bounce(Advance(e))

TouchesBow(e) == Within(e.x, e.y, cx, cy, e.radius + BowRadius)

\* The contact damage without the difficulty's multiplier.
ContactDamageUnscaled(e) == e.damage * 10 * DamageFactor

\* dmg = e.damage * diff.playerDamageMult * 0.017, in 1/10000 HP.
ContactDamage(e) == e.damage * diff.playerDamageMult10 * DamageFactor

\* The out-of-bounds test taking a bouncer as soon as it is off the screen.
OutOfBoundsOffScreen(e) ==
    IF e.pattern = "bounce"
    THEN e.x < 0 \/ e.x > W \/ e.y < 0 \/ e.y > H
    ELSE e.x < -OutMargin \/ e.x > W + OutMargin \/ e.y < -OutMargin \/ e.y > H + OutMargin

\* "Out of bounds (non-bounce)".
OutOfBounds(e) ==
    /\ e.pattern # "bounce"
    /\ (e.x < -OutMargin \/ e.x > W + OutMargin \/ e.y < -OutMargin \/ e.y > H + OutMargin)

\* The game-over branch of the bow collision: s.alive = false; onGameOver(s.score).
GameOver(c) == [c EXCEPT !.s.alive = FALSE, !.log = Append(@, c.s.score)]

\* A bow collision that deals damage only when it is the first of the step.
BowHitFirstOnly(c, i) ==
    LET e  == c.s.enemies[i]
        c1 == [c EXCEPT !.s.hp = IF c.ev.contacts = <<>> THEN Max(0, @ - ContactDamage(e)) ELSE @,
                        !.s.combo = 0, !.s.comboTimer = 0, !.s.killStreak = 0,
                        !.dead = Append(@, i)]
    IN  emitState([c1 EXCEPT !.ev.contacts =
                        Append(@, [i |-> i, damage |-> e.damage, hpBefore |-> c.s.hp,
                                   x |-> e.x, y |-> e.y, radius |-> e.radius,
                                   hpAfter |-> c1.s.hp, combo |-> c1.s.combo,
                                   comboTimer |-> c1.s.comboTimer,
                                   killStreak |-> c1.s.killStreak,
                                   marked |-> i \in Range(c1.dead)])])

\* A bow collision that also takes the enemy's points off the score.
BowHitTakesPoints(c, i) ==
    LET e  == c.s.enemies[i]
        c1 == [c EXCEPT !.s.hp = Max(0, @ - ContactDamage(e)),
                        !.s.score = Max(0, @ - e.points),
                        !.s.combo = 0, !.s.comboTimer = 0, !.s.killStreak = 0,
                        !.dead = Append(@, i)]
    IN  emitState([c1 EXCEPT !.ev.contacts =
                        Append(@, [i |-> i, damage |-> e.damage, hpBefore |-> c.s.hp,
                                   x |-> e.x, y |-> e.y, radius |-> e.radius,
                                   hpAfter |-> c1.s.hp, combo |-> c1.s.combo,
                                   comboTimer |-> c1.s.comboTimer,
                                   killStreak |-> c1.s.killStreak,
                                   marked |-> i \in Range(c1.dead)])])

\* The bow collision of enemy i, up to and including emitState.
BowHit(c, i) ==
    LET e  == c.s.enemies[i]
        c1 == [c EXCEPT !.s.hp = Max(0, @ - ContactDamage(e)),
                        !.s.combo = 0, !.s.comboTimer = 0, !.s.killStreak = 0,
                        !.dead = Append(@, i)]
    IN  emitState([c1 EXCEPT !.ev.contacts =
                        Append(@, [i |-> i, damage |-> e.damage, hpBefore |-> c.s.hp,
                                   x |-> e.x, y |-> e.y, radius |-> e.radius,
                                   hpAfter |-> c1.s.hp, combo |-> c1.s.combo,
                                   comboTimer |-> c1.s.comboTimer,
                                   killStreak |-> c1.s.killStreak,
                                   marked |-> i \in Range(c1.dead)])])

\* One turn of s.enemies.forEach((e, i) => ...).
UpdateEnemy(c, i, r) ==
    LET e  == MoveEnemy(c.s.enemies[i], r)
        c0 == [c EXCEPT !.s.enemies[i] = e]
        was == c.s.enemies[i]
        a  == Advance(was)
        walls == Cardinality({k \in 1..4 :
                     \/ k = 1 /\ a.x - a.radius < 0
                     \/ k = 2 /\ a.x + a.radius > W
                     \/ k = 3 /\ a.y - a.radius < 0
                     \/ k = 4 /\ a.y + a.radius > H})
        ct == IF was.pattern = "teleport" /\ was.teleportTimer - 1 <= 0
              THEN [spawnParticles(c0, 6 + 6) EXCEPT
                        !.ev.teleports = Append(@, [i |-> i, was |-> was, now |-> e])]
              ELSE IF was.pattern = "bounce" THEN spawnParticles(c0, 3 * walls)
              ELSE c0
        c1 == IF e.pattern = "bounce"
              THEN [ct EXCEPT !.ev.bounces =
                        Append(@, [i |-> i, x |-> e.x, y |-> e.y, radius |-> e.radius,
                                   vxBefore |-> c.s.enemies[i].vx,
                                   vyBefore |-> c.s.enemies[i].vy,
                                   vxAfter |-> e.vx, vyAfter |-> e.vy])]
              ELSE ct
        c2 == IF TouchesBow(e) THEN BowHit(spawnParticles(c1, 6), i) ELSE c1
    IN  IF TouchesBow(e) /\ c2.s.hp <= 0 THEN GameOver(c2)
        ELSE IF OutOfBounds(e) THEN [c2 EXCEPT !.dead = Append(@, i)]
        ELSE c2

RECURSIVE UpdateEnemies(_, _, _, _)
UpdateEnemies(c, i, n, r) ==
    IF i > n THEN c ELSE UpdateEnemies(UpdateEnemy(c, i, r), i + 1, n, r)

----------------------------------------------------------------------------
(* loop: projectile hits *)

\* The score of a kill computed from the combo after its increment.
EarnedWithNewCombo(e, st) == RoundDiv(e.points * st.wave * (2 + (st.combo + 1) \div 3), 2)

\* Math.round(points * wave * (1 + Math.floor(combo / 3) * 0.5))
Earned(e, st) == RoundDiv(e.points * st.wave * (2 + st.combo \div 3), 2)

\* The two scouts a dying splitter pushes: createEnemy(scout, W, H, {x, y}).
Offspring(e, r) ==
    [k \in 1..2 |->
        createEnemy(ENEMY_TYPES[1], NoScale, r.split[k],
                    [x |-> e.x + r.split[k].dx, y |-> e.y + r.split[k].dy])]

\* "Splitter spawns 2 scouts on death".
Split(c, ei, r) ==
    LET e == c.s.enemies[ei]
    IN  IF e.id = "splitter" /\ ~e.splitDone
        THEN [c EXCEPT !.s.enemies = [@ EXCEPT ![ei].splitDone = TRUE] \o Offspring(e, r),
                       !.ev.offspring = @ \o [k \in 1..2 |->
                                                [parent |-> ei, px |-> e.x, py |-> e.y,
                                                 child |-> Offspring(e, r)[k]]]]
        ELSE c

\* The power-up drop after a kill.  `kill` is the count of kills and `born`
\* the count of steps at the drop (history; the code keeps none of it).
Drop(c, ei, r) ==
    IF c.s.totalKills >= c.s.nextPowerupKill
    THEN [c EXCEPT !.s.nextPowerupKill = @ + r.inc,
                   !.s.powerups = Append(@, [x |-> c.s.enemies[ei].x, y |-> c.s.enemies[ei].y,
                                             type |-> r.kind, radius |-> PowerupRadius,
                                             life |-> PowerupLife,
                                             kill |-> c.s.totalKills, born |-> steps])]
    ELSE c

\* The particles and the floating texts of a kill, after s.combo++.
KillEffects(c) ==
    LET c1 == addFloat(spawnParticles(c, 14))
    IN  IF c.s.combo >= 3 THEN addFloat(c1) ELSE c1

\* The kill of a projectile hit without its emitState.
KillSilent(c, pi, ei, r) ==
    LET e  == c.s.enemies[ei]
        c0 == [c EXCEPT !.s.score = @ + Earned(e, c.s),
                        !.s.totalKills = @ + 1, !.s.killStreak = @ + 1,
                        !.s.combo = @ + 1, !.s.comboTimer = ComboWindow]
        c1 == [c0 EXCEPT !.ev.kills = Append(@, [pi |-> pi, ei |-> ei, id |-> e.id,
                                                 points |-> e.points, wave |-> c.s.wave,
                                                 combo |-> c.s.combo, scoreBefore |-> c.s.score,
                                                 scoreAfter |-> c0.s.score,
                                                 called |-> Len(c.log)])]
        c2 == Split(KillEffects(c1), ei, r)
        c3 == IF ei \in Range(c2.dead) THEN c2 ELSE [c2 EXCEPT !.dead = Append(@, ei)]
    IN  Drop(c3, ei, r)

\* The branch if (e.hp <= 0) of a projectile hit.
Kill(c, pi, ei, r) ==
    LET e  == c.s.enemies[ei]
        c0 == [c EXCEPT !.s.score = @ + Earned(e, c.s),
                        !.s.totalKills = @ + 1, !.s.killStreak = @ + 1,
                        !.s.combo = @ + 1, !.s.comboTimer = ComboWindow]
        c1 == [c0 EXCEPT !.ev.kills = Append(@, [pi |-> pi, ei |-> ei, id |-> e.id,
                                                 points |-> e.points, wave |-> c.s.wave,
                                                 combo |-> c.s.combo, scoreBefore |-> c.s.score,
                                                 scoreAfter |-> c0.s.score,
                                                 called |-> Len(c.log)])]
        c2 == Split(KillEffects(c1), ei, r)
        c3 == IF ei \in Range(c2.dead) THEN c2 ELSE [c2 EXCEPT !.dead = Append(@, ei)]
    IN  Drop(emitState(c3), ei, r)

\* The inner forEach without its deadEnemies test.
SkippedNever(c, ei) == FALSE

\* Whether the inner forEach skips enemy ei.
Skipped(c, ei) == ei \in Range(c.dead)

Overlaps(p, e) == Within(p.x, p.y, e.x, e.y, p.radius + e.radius)

\* A hit that takes two hit points.
HitTwice(e) == [e EXCEPT !.hp = @ - 2, !.hits = @ + 1]

\* e.hp--, and the count of the hits the enemy has taken (history).  An enemy
\* also carries `hitBy`, the piercing projectiles that have hit it in this
\* behaviour (history), which HitOne keeps.
Hit(e) == [e EXCEPT !.hp = @ - 1, !.hits = @ + 1]

\* One turn of the inner s.enemies.forEach((e, ei) => ...) for projectile pi.
HitOne(c, pi, ei, r) ==
    LET p == c.s.projectiles[pi]
        e == c.s.enemies[ei]
    IN  IF Skipped(c, ei)
        THEN IF Overlaps(p, e)
             THEN [c EXCEPT !.ev.skips = Append(@, [pi |-> pi, ei |-> ei, hp |-> e.hp])]
             ELSE c
        ELSE IF Overlaps(p, e)
        THEN LET c0 == [spawnParticles(c, 4) EXCEPT
                                !.s.enemies[ei] =
                                    [Hit(e) EXCEPT !.hitBy = IF p.piercing THEN @ \cup {p.shot} ELSE @]]
                 c1 == [c0 EXCEPT !.ev.hits = Append(@, [pi |-> pi, ei |-> ei,
                                                         hpBefore |-> e.hp, maxHp |-> e.maxHp,
                                                         hitsBefore |-> e.hits,
                                                         again |-> p.shot \in e.hitBy,
                                                         hpAfter |-> c0.s.enemies[ei].hp])]
                 c2 == IF c1.s.enemies[ei].hp <= 0 THEN Kill(c1, pi, ei, r) ELSE c1
             IN  IF ~p.piercing THEN [c2 EXCEPT !.deadP = @ \cup {pi}] ELSE c2
        ELSE c

RECURSIVE HitEnemies(_, _, _, _, _)
HitEnemies(c, pi, ei, n, r) ==
    IF ei > n THEN c ELSE HitEnemies(HitOne(c, pi, ei, r), pi, ei + 1, n, r)

RECURSIVE HitProjectiles(_, _, _)
\* s.projectiles.forEach: each projectile against the enemies present when its
\* inner forEach starts.
HitProjectiles(c, pi, r) ==
    IF pi > Len(c.s.projectiles) THEN c
    ELSE HitProjectiles(HitEnemies(c, pi, 1, Len(c.s.enemies), r), pi + 1, r)

\* "Remove dead" leaving the enemies in place.
RemoveDeadProjectilesOnly(c) ==
    [c EXCEPT !.s.projectiles = RemoveAll(@, c.deadP),
              !.ev.marked = Range(c.dead),
              !.ev.atRemoval = c.s.enemies]

\* [...new Set(deadEnemies)] spliced out, and the consumed projectiles filtered out.
RemoveDead(c) ==
    [c EXCEPT !.s.enemies = RemoveAll(@, Range(c.dead)),
              !.s.projectiles = RemoveAll(@, c.deadP),
              !.ev.marked = Range(c.dead),
              !.ev.atRemoval = c.s.enemies]

----------------------------------------------------------------------------
(* loop: pickups and projectile movement *)

\* The pickup test with the distance pickup radius + 20 itself counted in.
PickedUpInclusive(pu, mp) == Dist2(mp.x, mp.y, pu.x, pu.y) <= (pu.radius + PickupTolerance) * (pu.radius + PickupTolerance)

\* Math.sqrt(dx * dx + dy * dy) < pu.radius + 20
PickedUp(pu, mp) == Within(mp.x, mp.y, pu.x, pu.y, pu.radius + PickupTolerance)

RECURSIVE Pickup(_, _, _)
\* s.powerups.filter with its side effects, in list order.
Pickup(c, i, mp) ==
    IF i > Len(c.s.powerups) THEN c
    ELSE LET pu == c.s.powerups[i]
         IN  IF PickedUp(pu, mp)
             THEN Pickup([addFloat(spawnParticles(c, 12)) EXCEPT !.s.activePowerup = pu.type,
                                   !.s.powerupTimer = IF pu.type = "bomb" THEN 1 ELSE PowerupTime,
                                   !.s.powerups = RemoveAll(@, {i}),
                                   !.ev.picked = Append(@, [type |-> pu.type, x |-> pu.x, y |-> pu.y,
                                                            held |-> c.s.activePowerup])],
                         i, mp)
             ELSE Pickup(c, i + 1, mp)

OnScreen(p) ==
    /\ p.x > -ProjectileMargin /\ p.x < W + ProjectileMargin
    /\ p.y > -ProjectileMargin /\ p.y < H + ProjectileMargin

MoveProjectiles(c) ==
    LET moved == [i \in 1..Len(c.s.projectiles) |->
                     [c.s.projectiles[i] EXCEPT !.x = @ + c.s.projectiles[i].vx,
                                                !.y = @ + c.s.projectiles[i].vy]]
    IN  [c EXCEPT !.s.projectiles = SelectSeq(moved, OnScreen)]

\* s.particles.filter: p.life--, and the particle stays while p.life > 0.
ParticlesTick(c) ==
    LET b    == c.s.particles
        live == {p \in DOMAIN b : p.life - LifeUnit > 0}
    IN  [c EXCEPT !.s.particles =
            [q \in {[p EXCEPT !.life = @ - LifeUnit] : p \in live} |->
                b[[q EXCEPT !.life = @ + LifeUnit]]]]

\* The floats filter keeping a float whose life has reached 0.
FloatsTickInclusive(c) ==
    LET aged == [i \in 1..Len(c.s.floats) |-> [c.s.floats[i] EXCEPT !.life = @ - 1]]
    IN  [c EXCEPT !.s.floats = SelectSeq(aged, LAMBDA f : f.life >= 0)]

\* s.floats.filter: f.life--, and the float stays while f.life > 0.
FloatsTick(c) ==
    LET aged == [i \in 1..Len(c.s.floats) |-> [c.s.floats[i] EXCEPT !.life = @ - 1]]
    IN  [c EXCEPT !.s.floats = SelectSeq(aged, LAMBDA f : f.life > 0)]

----------------------------------------------------------------------------
(* loop *)

\* The body of loop after `if (!s.alive) return`, in source order.
loopRun(c, mp, r) ==
    LET c1 == PowerupLifeTick(PowerupTimerTick(ComboDecay(CooldownTick(
                  ReloadTick(SpawnTick(WaveTick(c), r))))))
        c2 == UpdateEnemies([c1 EXCEPT !.ev.before = Len(c1.s.enemies)],
                            1, Len(c1.s.enemies), r)
        c3 == RemoveDead(HitProjectiles(c2, 1, r))
    IN  FloatsTick(ParticlesTick(MoveProjectiles(Pickup(c3, 1, mp))))

----------------------------------------------------------------------------
(* The random draws of one step, as inputs *)

Sides == 0..3
Alongs == {20, 100}
Lengths == 1..8
TeleportFirst == {3}
TeleportNext == {100, 150}
SplitShift == 20
SplitShiftNear == 5
DropSteps == {8, 15}

\* The draws createEnemy can make for an archetype at a speed scale.
EnemyDraws(type, scale) ==
    {d \in [side : Sides, along : Alongs, k : Lengths,
            tp : IF type.pattern = "teleport" THEN TeleportFirst ELSE {0}] :
        DrawOk(type, scale, d)}

\* The draws for one offspring: createEnemy's, and the shift from the death position.
OffspringDraws(shift) ==
    {[side |-> d.side, along |-> d.along, k |-> d.k, tp |-> d.tp, dx |-> shift, dy |-> 0] :
        d \in EnemyDraws(ENEMY_TYPES[1], NoScale)}

NoDraw == [side |-> 0, along |-> 100, k |-> 1, tp |-> 0]
NoSplit == <<[side |-> 0, along |-> 20, k |-> 1, tp |-> 0, dx |-> 0, dy |-> 0],
             [side |-> 0, along |-> 20, k |-> 1, tp |-> 0, dx |-> 0, dy |-> 0]>>

\* The session state when the spawner runs in the coming step.
AtSpawn(st) == WaveTick(Ctx(st, hudState, gameOverLog, NoEv)).s

WillSpawn(st) == AtSpawn(st).spawnTimer >= SpawnRate(AtSpawn(st))

SpawnChoices(st) ==
    IF WillSpawn(st)
    THEN {[ti |-> ti, spawn |-> d] :
             ti \in Pool(AtSpawn(st)),
             d \in UNION {EnemyDraws(ENEMY_TYPES[i], SpawnScale(AtSpawn(st).wave)) : i \in Pool(AtSpawn(st))}}
    ELSE {[ti |-> 1, spawn |-> NoDraw]}

\* The draws one step can read; a draw the step cannot read is fixed.
Draws(st) ==
    LET es       == st.enemies
        anyOf(P(_)) == \E i \in 1..Len(es) : P(es[i])
        shooting == st.projectiles # <<>>
        mayKick  == anyOf(LAMBDA e : e.pattern = "zigzag" /\ (e.zigzagTimer + 1) % ZigzagPeriod = 0)
        mayTele  == \/ anyOf(LAMBDA e : e.pattern = "teleport" /\ e.teleportTimer - 1 <= 0)
                    \/ WillSpawn(st) /\ \E tp \in TeleportFirst : tp - 1 <= 0
        maySplit == shooting /\ anyOf(LAMBDA e : e.id = "splitter")
        mayDrop  == shooting /\ st.totalKills + 3 * Len(es) + 3 >= st.nextPowerupKill
    IN  {[ti |-> sc.ti, spawn |-> sc.spawn, flip |-> f, tpSide |-> ts, tpAlong |-> 100,
          tpNext |-> tn, split |-> sp, inc |-> inc, kind |-> kd] :
            sc \in {c \in SpawnChoices(st) :
                       ~WillSpawn(st) \/ DrawOk(ENEMY_TYPES[c.ti], SpawnScale(AtSpawn(st).wave), c.spawn)},
            f  \in IF mayKick THEN {1, -1} ELSE {1},
            ts \in IF mayTele THEN Sides ELSE {0},
            tn \in IF mayTele THEN TeleportNext ELSE {100},
            sp \in IF maySplit
                   THEN UNION {{<<a, b>> : a \in OffspringDraws(-sh), b \in OffspringDraws(sh)} :
                                  sh \in {SplitShiftNear, SplitShift}}
                   ELSE {NoSplit},
            inc \in IF mayDrop THEN DropSteps ELSE {8},
            kd  \in IF mayDrop THEN Range(PowerupTypes) ELSE {"multi"}}

\* The spawn of a draw, and the spawns of all draws.
SpawnOf(r) == [ti |-> r.ti, side |-> r.spawn.side, along |-> r.spawn.along]
AnySpawn == [ti : 1..Len(ENEMY_TYPES), side : Sides, along : Alongs]

\* The places the pointer is moved to: above the bow and left of it.
Pointers == {[x |-> cx, y |-> cy \div 2], [x |-> cx \div 2, y |-> cy]}

----------------------------------------------------------------------------
(* Actions *)

Commit(c, kind) ==
    /\ s' = c.s
    /\ hudState' = c.hud
    /\ gameOverLog' = c.log
    /\ ev' = [c.ev EXCEPT !.kind = kind]

\* The click handler, with the draw for the lives of its particles in `rnds`.
shootOf(rnds) ==
    /\ screen = "game"
    /\ \E d \in rnds :
          Commit(shootRun([Ctx(s, hudState, gameOverLog, NoEv) EXCEPT !.rnd = d], mousePos),
                 "shoot")
    /\ UNCHANGED <<host, difficulty, mousePos, rafPending, steps>>

\* The click handler.
shoot == shootOf({MidDraw})

\* The mousemove handler.
handleMouseMove ==
    /\ screen = "game"
    /\ \E p \in Pointers \ {mousePos} : mousePos' = p
    /\ UNCHANGED <<host, difficulty, s, hudState, gameOverLog, rafPending, steps, ev>>

\* loop without its early return.
LoopNeverReturns(st) == FALSE

\* if (!s.alive) return;
LoopReturns(st) == ~st.alive

\* One requested frame: loop returns at once when the session is over, and
\* otherwise runs the step and requests the next frame.  `limit` bounds the
\* steps of a behaviour, `spawns` holds the spawns that a behaviour follows
\* (archetype, edge and place along it) and `rnds` the draws it follows for
\* the lives of the step's particles.
LoopStepWith(limit, spawns, rnds) ==
    /\ rafPending > 0
    /\ IF LoopReturns(s)
       THEN /\ rafPending' = rafPending - 1
            /\ ev' = [NoEv EXCEPT !.kind = "loop"]
            /\ UNCHANGED <<host, difficulty, s, mousePos, hudState, gameOverLog, steps>>
       ELSE /\ steps < limit
            /\ ~WillSpawn(s) \/ Len(s.enemies) < MaxEnemies
            /\ \E r \in {d \in Draws(s) : SpawnOf(d) \in spawns}, l \in rnds :
                  Commit(loopRun([Ctx(s, hudState, gameOverLog, [NoEv EXCEPT !.ran = TRUE])
                                     EXCEPT !.rnd = l],
                                 mousePos, r), "loop")
            /\ steps' = steps + 1
            /\ UNCHANGED <<host, difficulty, mousePos, rafPending>>

\* One requested frame whose particles take the middle life.
LoopStepOf(limit, spawns) == LoopStepWith(limit, spawns, {MidDraw})

\* One requested frame, with every draw followed.
LoopStep(limit) == LoopStepOf(limit, AnySpawn)

loop == LoopStep(MaxSteps)

Next == loop \/ shoot \/ handleMouseMove

----------------------------------------------------------------------------------------------------------------------------------------
(* Initial states *)

\* Spec follows one session: one run of the effect, from its "Reset state"
\* block on, with the props it was mounted with.  Besides the state on mount,
\* a behaviour may start in the middle of a session, in a state a longer play
\* of the same session leaves; each such state is built below from the
\* operators of the code and the play that leads to it is stated with it.

\* The host while the canvas is mounted, with nothing saved so far.
HostAtMount ==
    /\ screen = "game"
    /\ leaderboard = <<>>
    /\ stored = [present |-> FALSE, value |-> <<>>]
    /\ lastScore = 0
    /\ lastWave = 1
    /\ playerName = "ARCHER"
    /\ saves = 0

\* The session as the effect leaves it on mount.
Fresh(d) ==
    /\ difficulty = d
    /\ s = ResetState(d)
    /\ mousePos = [x |-> 0, y |-> 0]
    /\ hudState = InitialHud
    /\ gameOverLog = <<>>
    /\ rafPending = 1
    /\ steps = 0
    /\ HostAtMount
    /\ ev = NoEv

\* The session after maxArrows - 1 shots, one every ShootCooldown steps from
\* the mount on: the arrows have left the screen, no enemy has spawned yet
\* (12 * (maxArrows - 1) is below the first spawn on every difficulty), the
\* cooldown has run out and one arrow is left.
LastArrowState(d) ==
    [ResetState(d) EXCEPT !.arrows = 1,
                          !.spawnTimer = ShootCooldown * (DIFFICULTY[d].maxArrows - 1),
                          !.waveTimer = ShootCooldown * (DIFFICULTY[d].maxArrows - 1)]

LastArrow(d) ==
    /\ difficulty = d
    /\ s = LastArrowState(d)
    /\ mousePos = [x |-> cx, y |-> cy]
    /\ hudState = Snapshot(LastArrowState(d))
    /\ gameOverLog = <<>>
    /\ rafPending = 1
    /\ steps = 0
    /\ HostAtMount
    /\ ev = NoEv

\* What is left of n particles and of n floating texts made in the step that
\* ended `ago` steps ago, the particles with the middle life.
Sparks(n, ago) ==
    IF n > 0 /\ SparkLife + MidDraw - (ago + 1) * LifeUnit > 0
    THEN [p \in {[life |-> SparkLife + MidDraw - (ago + 1) * LifeUnit, maxLife |-> 65,
                  born |-> -(ago + 1)]} |-> n]
    ELSE EmptyBag
Floated(n, ago) ==
    IF FloatLife - (ago + 1) > 0
    THEN [i \in 1..n |-> [life |-> FloatLife - (ago + 1), born |-> -(ago + 1)]]
    ELSE <<>>

RECURSIVE MoveN(_, _, _)
\* An enemy after n turns of the enemy update.
MoveN(e, n, r) ==
    IF n = 0 THEN e
    ELSE IF n = 1 THEN MoveEnemy(e, r)
    ELSE CHOOSE after \in {MoveN(half, n - n \div 2, r) : half \in {MoveN(e, n \div 2, r)}} : TRUE

\* Whether none of the first n turns brought the enemy onto the bow or out of bounds.
Untouched(e, n, r) ==
    \A i \in 1..n : \A at \in {MoveN(e, i, r)} : ~TouchesBow(at) /\ ~OutOfBounds(at)

\* A late wave of a session in which the player let most enemies through:
\* the spawn rate is MinSpawnRate, every archetype is in the pool, and the
\* contacts have brought health down.  Of the enemies spawned so far two are
\* on their way: a ghost from the top edge, which its first teleport (after
\* `tp` turns) has put back on the point it was spawned at, and a scout from
\* the left edge (k pixels per step) spawned MinSpawnRate steps after the
\* ghost, `near` turns ago.  The player's part is the health left (`left`, in
\* contact units), the scouts shot so far (`kills`), all in this wave, one
\* arrow each and in a row but for the reloads (the contacts during a reload
\* end the streak), and the arrows of the current quiver that have hit the
\* ghost (`hits`).  The last kill was `SinceKill` steps ago and the last
\* contact and the hits on the ghost longer ago: the particles of the
\* teleport and the floating texts of the last kill are still there.
Late ==
    [d \in Difficulties |->
        CASE d = "easy"   -> [wave |-> 41, ghostK |-> 3, near |-> 18]
          [] d = "normal" -> [wave |-> 21, ghostK |-> 3, near |-> 18]
          [] d = "hard"   -> [wave |-> 13, ghostK |-> 4, near |-> 16]]

Scenes ==
    [d \in Difficulties |->
        IF d = "hard"
        THEN {[k |-> 6, tp |-> 25, left |-> 0, kills |-> 0, hits |-> 0],
              [k |-> 6, tp |-> 25, left |-> 25, kills |-> 0, hits |-> 0],
              [k |-> 6, tp |-> 25, left |-> 40, kills |-> 0, hits |-> 0],
              [k |-> 5, tp |-> 25, left |-> 0, kills |-> 0, hits |-> 0],
              [k |-> 5, tp |-> 30, left |-> 100, kills |-> 9, hits |-> 0]}
        ELSE {[k |-> 5, tp |-> 19, left |-> 0, kills |-> 0, hits |-> 0],
              [k |-> 5, tp |-> 19, left |-> 25, kills |-> 0, hits |-> 0],
              [k |-> 5, tp |-> 19, left |-> 40, kills |-> 0, hits |-> 0],
              [k |-> 4, tp |-> 19, left |-> 0, kills |-> 0, hits |-> 0],
              [k |-> 4, tp |-> 30, left |-> 100, kills |-> 9, hits |-> 1]}]

GhostDraw(d, tp) == [side |-> 0, along |-> 100, k |-> Late[d].ghostK, tp |-> tp]
ScoutDraw(k) == [side |-> 3, along |-> 100, k |-> k, tp |-> 0]
BackToStart == [flip |-> 1, tpSide |-> 0, tpAlong |-> 100, tpNext |-> 100]

\* Health after contacts only: 100 less a multiple of 0.017 x playerDamageMult.
HpAfterContacts(d, left) ==
    ((100 * HpUnit) % (DamageFactor * DIFFICULTY[d].playerDamageMult10))
        + left * DamageFactor * DIFFICULTY[d].playerDamageMult10

RECURSIVE StreakScore(_, _)
\* The score of n scout kills in a row in this wave, each within the combo window.
StreakScore(n, wave) ==
    IF n = 0 THEN 0
    ELSE StreakScore(n - 1, wave) + Earned(ENEMY_TYPES[1], [wave |-> wave, combo |-> n - 1])

SinceKill == 50

LateState(d, sc) ==
    LET scale  == DIFFICULTY[d].enemySpeedMult10 * (100 + 4 * Late[d].wave)
        ghost  == createEnemy(ENEMY_TYPES[4], scale, GhostDraw(d, sc.tp), NoPos)
        scout  == createEnemy(ENEMY_TYPES[1], scale, ScoutDraw(sc.k), NoPos)
        quiver == DIFFICULTY[d].maxArrows
        streak == sc.kills % quiver
    IN  [ResetState(d) EXCEPT
            !.wave = Late[d].wave,
            !.waveTimer = 2 * MinSpawnRate + Late[d].near,
            !.spawnTimer = Late[d].near - 1,
            !.hp = HpAfterContacts(d, sc.left),
            !.enemies = <<[MoveN(ghost, MinSpawnRate + Late[d].near, BackToStart)
                              EXCEPT !.hp = @ - sc.hits, !.hits = sc.hits],
                          MoveN(scout, Late[d].near, BackToStart)>>,
            !.score = (sc.kills \div quiver) * StreakScore(quiver, Late[d].wave)
                          + StreakScore(streak, Late[d].wave),
            !.totalKills = sc.kills, !.killStreak = streak, !.combo = streak,
            !.comboTimer = IF streak > 0 THEN ComboWindow - SinceKill ELSE 0,
            !.particles = Sparks(6 + 6, MinSpawnRate + Late[d].near - sc.tp),
            !.floats = IF streak > 0
                       THEN Floated(IF streak >= 3 THEN 2 ELSE 1, SinceKill) ELSE <<>>,
            !.arrows = quiver - streak - sc.hits]

LateOk(d, sc) ==
    LET scale == DIFFICULTY[d].enemySpeedMult10 * (100 + 4 * Late[d].wave)
        ghost == createEnemy(ENEMY_TYPES[4], scale, GhostDraw(d, sc.tp), NoPos)
        scout == createEnemy(ENEMY_TYPES[1], scale, ScoutDraw(sc.k), NoPos)
    IN  /\ SpeedInRange(ghost.vx, ghost.vy, ENEMY_TYPES[4].speed10 * scale)
        /\ SpeedInRange(scout.vx, scout.vy, ENEMY_TYPES[1].speed10 * scale)
        /\ Untouched(ghost, MinSpawnRate + Late[d].near, BackToStart)
        /\ Untouched(scout, Late[d].near, BackToStart)

LateWave(d) ==
    \E sc \in Scenes[d] :
        /\ LateOk(d, sc)
        /\ difficulty = d
        /\ s = LateState(d, sc)
        /\ mousePos = [x |-> cx, y |-> cy]
        /\ hudState = Snapshot(LateState(d, sc))
        /\ gameOverLog = <<>>
        /\ rafPending = 1
        /\ steps = 0
        /\ HostAtMount
        /\ ev = NoEv

Init == \E d \in Difficulties : Fresh(d) \/ LastArrow(d) \/ LateWave(d)

Spec == Init /\ [][Next]_vars

----------------------------------------------------------------------------
(* The steps after a kill *)

\* SpecCombo follows the steps after a projectile kill, to past the end of
\* the combo window.  It starts at the end of the step of the kill: normal
\* difficulty, wave 2, the enemies of wave 1 (six scouts) have all reached the
\* bow, and the scout spawned `ComboSpawnAge` steps ago has just been killed,
\* `ComboFlight` steps after the shot, by the last but one arrow of the
\* quiver, the first to hit anything.  The next enemy spawns inside the
\* window and can reach the bow only after the last step followed.
ComboSteps == 93
ComboSpawnAge == 40
ComboFlight == 4

ComboState ==
    [ResetState("normal") EXCEPT
        !.wave = 2,
        !.waveTimer = ComboSpawnAge + 20,
        !.spawnTimer = ComboSpawnAge,
        !.hp = 100 * HpUnit - 6 * ENEMY_TYPES[1].damage * DIFFICULTY["normal"].playerDamageMult10
                                * DamageFactor,
        !.score = Earned(ENEMY_TYPES[1], [wave |-> 2, combo |-> 0]),
        !.totalKills = 1, !.killStreak = 1, !.combo = 1, !.comboTimer = ComboWindow,
        !.particles = Sparks(4 + 14, 0), !.floats = Floated(1, 0),
        !.arrows = 1,
        !.shootCooldown = ShootCooldown - ComboFlight]

InitCombo ==
    /\ difficulty = "normal"
    /\ s = ComboState
    /\ mousePos = [x |-> cx \div 2, y |-> cy]
    /\ hudState = Snapshot(ComboState)
    /\ gameOverLog = <<>>
    /\ rafPending = 1
    /\ steps = 0
    /\ HostAtMount
    /\ ev = NoEv

loopCombo == LoopStep(ComboSteps)

NextCombo == loopCombo \/ shoot \/ handleMouseMove

SpecCombo == InitCombo /\ [][NextCombo]_vars

----------------------------------------------------------------------------
(* Wave 6: every archetype, every power-up *)

\* SpecArsenal follows a few steps of wave 6 on normal difficulty, the first
\* wave in which every archetype spawns.  The player has killed ten enemies
\* (eight in wave 4, two in wave 5, none of them within the combo window of
\* another), so that the first power-up has dropped, and has three arrows
\* left.  Either no power-up is active (the drop ran out on the field), or one
\* was picked up `ArsenalHeld` steps ago, or the drop was a bomb and the last
\* step picked it up.  One enemy is on its way, spawned `age` steps ago from
\* the middle of an edge:
\*   - a splitter from the left that three arrows have hit, the last
\*     `SplitterHit` steps ago and one every 13 steps, or
\*   - a bouncer from any edge, still outside the screen.
ArsenalSteps == 7
ArsenalWave == 6
ArsenalHeld == 60
SplitterAge == 40
BouncerAge == 5
SplitterK == 2
SplitterHit == 12
BouncerK == 3

ArsenalScale == DIFFICULTY["normal"].enemySpeedMult10 * (100 + 4 * ArsenalWave)

\* The scenes: the archetype, the draws of its createEnemy, the steps since
\* its spawn and the arrows that have hit it.
ArsenalScenes ==
    {[type |-> 5, draw |-> [side |-> 3, along |-> cy, k |-> SplitterK, tp |-> 0],
      age |-> SplitterAge, hits |-> 3]}
    \cup {[type |-> 7, draw |-> [side |-> side, along |-> cx, k |-> BouncerK, tp |-> 0],
            age |-> BouncerAge, hits |-> 0] : side \in Sides}

\* The enemy of a scene as createEnemy made it.
ArsenalSpawned(sc) == createEnemy(ENEMY_TYPES[sc.type], ArsenalScale, sc.draw, NoPos)

\* The enemy of a scene now: it moved in the step of its spawn and in each step since.
ArsenalEnemy(sc) ==
    [MoveN(ArsenalSpawned(sc), sc.age + 1, BackToStart)
        EXCEPT !.hp = @ - sc.hits, !.hits = sc.hits]

ArsenalState(p, sc) ==
    [ResetState("normal") EXCEPT
        !.wave = ArsenalWave,
        !.waveTimer = sc.age + SpawnRateStep,
        !.spawnTimer = sc.age,
        !.hp = HpAfterContacts("normal", 5000),
        !.score = 8 * Earned(ENEMY_TYPES[1], [wave |-> 4, combo |-> 0])
                    + 2 * Earned(ENEMY_TYPES[1], [wave |-> 5, combo |-> 0]),
        !.totalKills = FirstPowerupKill,
        !.nextPowerupKill = FirstPowerupKill + 8,
        !.killStreak = 2,
        !.arrows = 3,
        !.activePowerup = p,
        !.powerupTimer = IF p = "null" THEN 0
                         ELSE IF p = "bomb" THEN 1 ELSE PowerupTime - ArsenalHeld,
        !.particles = (IF sc.hits > 0
                       THEN Sparks(4, SplitterHit) (+) Sparks(4, SplitterHit + 13)
                                (+) Sparks(4, SplitterHit + 26)
                       ELSE EmptyBag)
                      (+) (IF p = "bomb" THEN Sparks(12, 0) ELSE EmptyBag),
        !.floats = IF p = "bomb" THEN Floated(1, 0) ELSE <<>>,
        !.enemies = <<ArsenalEnemy(sc)>>]

\* The draws are draws createEnemy can make, and the enemy is still there:
\* it has not touched the bow and, unless it is a bouncer, which the test
\* leaves alone, has not been out of bounds.
ArsenalOk(sc) ==
    /\ DrawOk(ENEMY_TYPES[sc.type], ArsenalScale, sc.draw)
    /\ IF ENEMY_TYPES[sc.type].pattern = "bounce"
       THEN \A i \in 1..(sc.age + 1) :
               \A at \in {MoveN(ArsenalSpawned(sc), i, BackToStart)} : ~TouchesBow(at)
       ELSE Untouched(ArsenalSpawned(sc), sc.age + 1, BackToStart)

InitArsenal ==
    \E p \in Range(PowerupTypes) \cup {"null"} :
      \E sc \in ArsenalScenes :
        /\ ArsenalOk(sc)
        /\ difficulty = "normal"
        /\ s = ArsenalState(p, sc)
        /\ mousePos = [x |-> cx \div 2, y |-> cy]
        /\ hudState = Snapshot(ArsenalState(p, sc))
        /\ gameOverLog = <<>>
        /\ rafPending = 1
        /\ steps = 0
        /\ HostAtMount
        /\ ev = NoEv

\* The mousemove handler, for a pointer moved onto the centre of the board.
handleMouseMoveCentre ==
    /\ screen = "game"
    /\ mousePos # [x |-> cx, y |-> cy]
    /\ mousePos' = [x |-> cx, y |-> cy]
    /\ UNCHANGED <<host, difficulty, s, hudState, gameOverLog, rafPending, steps, ev>>

loopArsenal == LoopStep(ArsenalSteps)

NextArsenal == loopArsenal \/ shoot \/ handleMouseMove \/ handleMouseMoveCentre

SpecArsenal == InitArsenal /\ [][NextArsenal]_vars

----------------------------------------------------------------------------
(* The removal pass *)

\* SpecRemoval follows the session of SpecArsenal with no power-up active
\* and the splitter on its way, and with one more enemy, ahead of the
\* splitter in the list: an offspring of a splitter that the player shot in
\* wave 5 (the tenth kill of the session, in place of the second scout of
\* that wave), `RunawayAge` steps ago, at `ParentAt`.  createEnemy gave that
\* offspring the velocity of a scout spawned on the right edge, and it has
\* flown off to the left ever since; its sibling has run into the bow.
RemovalSteps == 7
RunawayAge == 111

ParentAt == [x |-> 30, y |-> cy]
RunawayDraw == [side |-> 1, along |-> 20, k |-> 1, tp |-> 0]
RunawayBorn ==
    createEnemy(ENEMY_TYPES[1], NoScale, RunawayDraw,
                [x |-> ParentAt.x - SplitShift, y |-> ParentAt.y])
SplitterScene ==
    CHOOSE sc \in ArsenalScenes : ENEMY_TYPES[sc.type].id = "splitter"

RemovalState ==
    [ArsenalState("null", SplitterScene) EXCEPT
        !.score = 8 * Earned(ENEMY_TYPES[1], [wave |-> 4, combo |-> 0])
                    + Earned(ENEMY_TYPES[1], [wave |-> 5, combo |-> 0])
                    + Earned(ENEMY_TYPES[5], [wave |-> 5, combo |-> 0]),
        !.enemies = <<MoveN(RunawayBorn, RunawayAge, BackToStart)>> \o @]

InitRemoval ==
    /\ ArsenalOk(SplitterScene)
    /\ DrawOk(ENEMY_TYPES[1], NoScale, RunawayDraw)
    /\ Untouched(RunawayBorn, RunawayAge, BackToStart)
    /\ difficulty = "normal"
    /\ s = RemovalState
    /\ mousePos = [x |-> cx \div 2, y |-> cy]
    /\ hudState = Snapshot(RemovalState)
    /\ gameOverLog = <<>>
    /\ rafPending = 1
    /\ steps = 0
    /\ HostAtMount
    /\ ev = NoEv

loopRemoval == LoopStep(RemovalSteps)

NextRemoval == loopRemoval \/ shoot \/ handleMouseMove

SpecRemoval == InitRemoval /\ [][NextRemoval]_vars

----------------------------------------------------------------------------
(* The spawner *)

\* SpecSpawn follows the steps around a spawn.  It starts `SpawnLead` steps
\* before one:
\*   - on each difficulty, before the first spawn of the session, the player
\*     having done nothing since the mount;
\*   - on normal difficulty, before the step that ends wave 2, the 1402nd of
\*     the session.  Wave 1 has spawned at steps 104, 208, ..., 624 and wave 2
\*     at steps 722, 820, ..., 1310; the six enemies of wave 1, scouts, have
\*     reached the bow, and the seven of wave 2, scouts, have each been shot
\*     by the first arrow at them, no two within the combo window, with one
\*     reload on the way.  The spawn timer reaches the rate of wave 3 in the
\*     step that starts wave 3;
\*   - on each difficulty, in a late wave, where the rate is `MinSpawnRate`.
\* The player moves the pointer and does not shoot.
SpawnSteps == 20
SpawnLead == 3

Idle(d) ==
    /\ difficulty = d
    /\ s = [ResetState(d) EXCEPT
                !.spawnTimer = Max(MinSpawnRate, DIFFICULTY[d].spawnRate - SpawnRateStep) - SpawnLead,
                !.waveTimer = Max(MinSpawnRate, DIFFICULTY[d].spawnRate - SpawnRateStep) - SpawnLead]
    /\ mousePos = [x |-> 0, y |-> 0]
    /\ hudState = InitialHud
    /\ gameOverLog = <<>>
    /\ rafPending = 1
    /\ steps = 0
    /\ HostAtMount
    /\ ev = NoEv

SecondWaveEndState ==
    [ResetState("normal") EXCEPT
        !.wave = 2,
        !.waveTimer = WaveLength + 1 - SpawnLead,
        !.spawnTimer = DIFFICULTY["normal"].spawnRate - 3 * SpawnRateStep - SpawnLead,
        !.hp = 100 * HpUnit - 6 * ENEMY_TYPES[1].damage * DIFFICULTY["normal"].playerDamageMult10
                                * DamageFactor,
        !.score = 7 * Earned(ENEMY_TYPES[1], [wave |-> 2, combo |-> 0]),
        !.totalKills = 7, !.killStreak = 7,
        !.arrows = 1]

SecondWaveEnd ==
    /\ difficulty = "normal"
    /\ s = SecondWaveEndState
    /\ mousePos = [x |-> cx \div 2, y |-> cy]
    /\ hudState = Snapshot(SecondWaveEndState)
    /\ gameOverLog = <<>>
    /\ rafPending = 1
    /\ steps = 0
    /\ HostAtMount
    /\ ev = NoEv

InitSpawn == SecondWaveEnd \/ \E d \in Difficulties : Idle(d) \/ LateWave(d)

loopSpawn == LoopStep(SpawnSteps)

NextSpawn == loopSpawn \/ handleMouseMove

SpecSpawn == InitSpawn /\ [][NextSpawn]_vars

----------------------------------------------------------------------------
(* The shoot cooldown *)

\* SpecCooldown follows the session of SpecArsenal, with no power-up or with
\* rapid fire active and a bouncer on its way from the top, for one step more
\* than the longer cooldown.
CooldownSteps == 13

InitCooldown ==
    \E p \in {"null", "rapid"} :
      \E sc \in {a \in ArsenalScenes : ENEMY_TYPES[a.type].id = "bouncer" /\ a.draw.side = 0} :
        /\ ArsenalOk(sc)
        /\ difficulty = "normal"
        /\ s = ArsenalState(p, sc)
        /\ mousePos = [x |-> cx \div 2, y |-> cy]
        /\ hudState = Snapshot(ArsenalState(p, sc))
        /\ gameOverLog = <<>>
        /\ rafPending = 1
        /\ steps = 0
        /\ HostAtMount
        /\ ev = NoEv

loopCooldown == LoopStep(CooldownSteps)

NextCooldown == loopCooldown \/ shoot \/ handleMouseMove

SpecCooldown == InitCooldown /\ [][NextCooldown]_vars

----------------------------------------------------------------------------
(* A piercing arrow *)

\* SpecPierce follows the session of SpecArsenal for `PierceSteps` steps with
\* the pierce power-up picked up `ArsenalHeld` steps ago and the bouncer
\* coming from the left or from the top.
PierceSteps == 10

InitPierce ==
    \E sc \in {a \in ArsenalScenes : ENEMY_TYPES[a.type].id = "bouncer" /\ a.draw.side \in {0, 3}} :
        /\ ArsenalOk(sc)
        /\ difficulty = "normal"
        /\ s = ArsenalState("pierce", sc)
        /\ mousePos = [x |-> cx \div 2, y |-> cy]
        /\ hudState = Snapshot(ArsenalState("pierce", sc))
        /\ gameOverLog = <<>>
        /\ rafPending = 1
        /\ steps = 0
        /\ HostAtMount
        /\ ev = NoEv

loopPierce == LoopStep(PierceSteps)

NextPierce == loopPierce \/ shoot \/ handleMouseMove

SpecPierce == InitPierce /\ [][NextPierce]_vars

----------------------------------------------------------------------------
(* A teleport *)

\* SpecTeleport follows the session of SpecSpawn that ends wave 2 at step
\* 1402, further on.  The enemy spawned at step 1402 was a ghost from the
\* middle of the top edge with a countdown of `GhostFirst`.  The player's last
\* arrow has hit it on its way down, the quiver has been reloaded since, and
\* the ghost's first teleport has taken it to the middle of the left edge with
\* a countdown of 100; it has flown on downwards since.  The next enemy, a
\* scout from the right, came 92 steps after the ghost.  The ghost is
\* `TeleportLead` steps from its second teleport.
TeleportSteps == 5
TeleportLead == 2
GhostFirst == 20

GhostMoves == GhostFirst + 100 - TeleportLead
ThirdWaveRate == DIFFICULTY["normal"].spawnRate - 3 * SpawnRateStep
ThirdWaveScale == DIFFICULTY["normal"].enemySpeedMult10 * (100 + 4 * 3)
ToTheLeft == [flip |-> 1, tpSide |-> 3, tpAlong |-> 100, tpNext |-> 100]
GhostBorn ==
    createEnemy(ENEMY_TYPES[4], ThirdWaveScale,
                [side |-> 0, along |-> cx, k |-> 2, tp |-> GhostFirst], NoPos)
LateScoutBorn ==
    createEnemy(ENEMY_TYPES[1], ThirdWaveScale,
                [side |-> 1, along |-> cy, k |-> 3, tp |-> 0], NoPos)

TeleportState ==
    [SecondWaveEndState EXCEPT
        !.wave = 3,
        !.waveTimer = GhostMoves - 1,
        !.spawnTimer = GhostMoves - 1 - ThirdWaveRate,
        !.arrows = DIFFICULTY["normal"].maxArrows,
        !.enemies = <<[MoveN(GhostBorn, GhostMoves, ToTheLeft) EXCEPT !.hp = @ - 1, !.hits = 1],
                      MoveN(LateScoutBorn, GhostMoves - ThirdWaveRate, ToTheLeft)>>]

InitTeleport ==
    /\ SpeedInRange(GhostBorn.vx, GhostBorn.vy, ENEMY_TYPES[4].speed10 * ThirdWaveScale)
    /\ SpeedInRange(LateScoutBorn.vx, LateScoutBorn.vy, ENEMY_TYPES[1].speed10 * ThirdWaveScale)
    /\ Untouched(GhostBorn, GhostMoves, ToTheLeft)
    /\ Untouched(LateScoutBorn, GhostMoves - ThirdWaveRate, ToTheLeft)
    /\ GhostMoves - 1 - ThirdWaveRate >= 0
    /\ difficulty = "normal"
    /\ s = TeleportState
    /\ mousePos = [x |-> cx \div 2, y |-> cy]
    /\ hudState = Snapshot(TeleportState)
    /\ gameOverLog = <<>>
    /\ rafPending = 1
    /\ steps = 0
    /\ HostAtMount
    /\ ev = NoEv

loopTeleport == LoopStep(TeleportSteps)

NextTeleport == loopTeleport \/ shoot \/ handleMouseMove

SpecTeleport == InitTeleport /\ [][NextTeleport]_vars

----------------------------------------------------------------------------
(* Drops after a bomb *)

\* SpecDrops follows the kill after this play, on normal difficulty:
\*   - ten scouts shot in wave 20, no two within the combo window; the tenth
\*     kill drops a bomb and sets the next drop to the 18th kill;
\*   - in wave 21, with a scout spawned every 35 steps, seven scouts shot one
\*     after the other (kills 11 to 17) while the bomb lies on the field;
\*   - the bomb picked up and fired at once with the last arrow: it kills
\*     one scout, the 18th kill, which drops nothing;
\*   - the reload, and the combo run out; then seven scouts shot one after the
\*     other (kills 19 to 25).  The 19th, shot above the bow, has dropped a
\*     power-up, `SinceDrop` steps ago, and has set the next drop to the 26th
\*     kill; the power-up is still on the field.
\* One arrow is left, the pointer is left of the bow and the next scout comes
\* from the left.
DropsSteps == 9
DropsWave == 21
SinceDrop == 220
SinceLastKill == 30
DropsScoutAge == 5

DropsScale == DIFFICULTY["normal"].enemySpeedMult10 * (100 + 4 * DropsWave)
DropsScoutBorn == createEnemy(ENEMY_TYPES[1], DropsScale, ScoutDraw(4), NoPos)

DropsState ==
    [ResetState("normal") EXCEPT
        !.wave = DropsWave,
        !.waveTimer = WaveLength - 2 * DropsSteps,
        !.spawnTimer = DropsScoutAge,
        !.hp = HpAfterContacts("normal", 5000),
        !.score = 10 * Earned(ENEMY_TYPES[1], [wave |-> DropsWave - 1, combo |-> 0])
                    + StreakScore(7, DropsWave)
                    + ENEMY_TYPES[1].points * DropsWave
                    + StreakScore(7, DropsWave),
        !.totalKills = FirstPowerupKill + 15,
        !.nextPowerupKill = FirstPowerupKill + 16,
        !.killStreak = 7, !.combo = 7, !.comboTimer = ComboWindow - SinceLastKill,
        !.particles = Sparks(4 + 14, SinceLastKill), !.floats = Floated(2, SinceLastKill),
        !.arrows = 1,
        !.powerups = <<[x |-> cx, y |-> cy - 60, type |-> "pierce",
                        radius |-> PowerupRadius, life |-> PowerupLife - SinceDrop,
                        kill |-> FirstPowerupKill + 9, born |-> -(SinceDrop + 1)]>>,
        !.enemies = <<MoveN(DropsScoutBorn, DropsScoutAge + 1, BackToStart)>>]

InitDrops ==
    /\ SpeedInRange(DropsScoutBorn.vx, DropsScoutBorn.vy, ENEMY_TYPES[1].speed10 * DropsScale)
    /\ Untouched(DropsScoutBorn, DropsScoutAge + 1, BackToStart)
    /\ difficulty = "normal"
    /\ s = DropsState
    /\ mousePos = [x |-> cx \div 2, y |-> cy]
    /\ hudState = Snapshot(DropsState)
    /\ gameOverLog = <<>>
    /\ rafPending = 1
    /\ steps = 0
    /\ HostAtMount
    /\ ev = NoEv

loopDrops == LoopStep(DropsSteps)

NextDrops == loopDrops \/ shoot \/ handleMouseMove

SpecDrops == InitDrops /\ [][NextDrops]_vars

----------------------------------------------------------------------------
(* The end of a wave *)

\* SpecWave follows the last steps of wave 1 and the first of wave 2 on normal
\* difficulty.  It starts `WaveLead` steps before the wave timer is 700.  The
\* player has not shot yet; the six enemies spawned so far, all scouts, have
\* reached the bow, and the seventh spawns after the last step followed.
WaveSteps == 10
WaveLead == 6

WaveEndState ==
    [ResetState("normal") EXCEPT
        !.waveTimer = WaveLength - WaveLead,
        !.spawnTimer = (WaveLength - WaveLead) % SpawnRate([wave |-> 1]),
        !.hp = 100 * HpUnit - 6 * ENEMY_TYPES[1].damage * DIFFICULTY["normal"].playerDamageMult10
                                * DamageFactor]

InitWave ==
    /\ difficulty = "normal"
    /\ s = WaveEndState
    /\ mousePos = [x |-> cx \div 2, y |-> cy]
    /\ hudState = Snapshot(WaveEndState)
    /\ gameOverLog = <<>>
    /\ rafPending = 1
    /\ steps = 0
    /\ HostAtMount
    /\ ev = NoEv

loopWave == LoopStep(WaveSteps)

NextWave == loopWave \/ shoot \/ handleMouseMove

SpecWave == InitWave /\ [][NextWave]_vars

----------------------------------------------------------------------------
(* The life of a power-up *)

\* SpecPickup follows a power-up from the step that can pick it up to the
\* step after its timer has run out.  The session is in wave `PickupWave` on
\* easy difficulty, `PickupWaveAge` steps into the wave.  The player has shot
\* 19 enemies (ten in wave 6, eight in wave 7 and one, 90 steps ago or more,
\* in this wave, none within the combo window of another): the tenth kill
\* dropped the first power-up and the eighteenth, `DropAge` steps ago, the
\* second, which lies where that enemy died, above the bow, and which the
\* coming step is the last to leave on the board.  The first power-up either
\* ran out on the field or was picked up `PickupHeld` steps ago.  No enemy is
\* on the board, and the last spawn was `PickupWaveAge` steps ago.  The player
\* does not shoot, and moves the pointer onto the power-up (35 pixels from
\* its centre) or next to it (36 pixels from its centre).  The spawner's
\* draws are narrowed to scouts from the middle of the top edge: the pickup
\* and the timers read no draw.
PickupSteps == 363
PickupWave == 8
PickupWaveAge == 100
PickupHeld == 300
DropAge == 358

DropAt == [x |-> cx, y |-> cy \div 2]
PointerOnDrop == [x |-> DropAt.x + 21, y |-> DropAt.y + 28]
PointerByDrop == [x |-> DropAt.x, y |-> DropAt.y + 36]

PickupState(held, kind) ==
    [ResetState("easy") EXCEPT
        !.wave = PickupWave,
        !.waveTimer = PickupWaveAge,
        !.spawnTimer = PickupWaveAge,
        !.hp = HpAfterContacts("easy", 9000),
        !.score = 10 * Earned(ENEMY_TYPES[1], [wave |-> PickupWave - 2, combo |-> 0])
                    + 8 * Earned(ENEMY_TYPES[1], [wave |-> PickupWave - 1, combo |-> 0])
                    + Earned(ENEMY_TYPES[1], [wave |-> PickupWave, combo |-> 0]),
        !.totalKills = FirstPowerupKill + 9,
        !.nextPowerupKill = FirstPowerupKill + 16,
        !.killStreak = 1,
        !.arrows = DIFFICULTY["easy"].maxArrows - 1,
        !.activePowerup = held,
        !.powerupTimer = IF held = "null" THEN 0 ELSE PowerupTime - PickupHeld,
        !.powerups = <<[x |-> DropAt.x, y |-> DropAt.y, type |-> kind,
                        radius |-> PowerupRadius, life |-> PowerupLife - DropAge,
                        kill |-> FirstPowerupKill + 8, born |-> -(DropAge + 1)]>>]

InitPickup ==
    \E held \in {"null", "rapid"} :
      \E kind \in Range(PowerupTypes) :
        /\ difficulty = "easy"
        /\ s = PickupState(held, kind)
        /\ mousePos = [x |-> cx \div 2, y |-> cy]
        /\ hudState = Snapshot(PickupState(held, kind))
        /\ gameOverLog = <<>>
        /\ rafPending = 1
        /\ steps = 0
        /\ HostAtMount
        /\ ev = NoEv

\* The mousemove handler, for a pointer moved onto the power-up.
handleMouseMoveOnDrop ==
    /\ screen = "game"
    /\ mousePos # PointerOnDrop
    /\ mousePos' = PointerOnDrop
    /\ UNCHANGED <<host, difficulty, s, hudState, gameOverLog, rafPending, steps, ev>>

\* The mousemove handler, for a pointer moved next to the power-up.
handleMouseMoveByDrop ==
    /\ screen = "game"
    /\ mousePos # PointerByDrop
    /\ mousePos' = PointerByDrop
    /\ UNCHANGED <<host, difficulty, s, hudState, gameOverLog, rafPending, steps, ev>>

\* A scout from the middle of the top edge, when the step spawns.
ScoutFromTop == {[ti |-> 1, side |-> 0, along |-> cx]}

loopPickup == LoopStepOf(PickupSteps, ScoutFromTop)

NextPickup == loopPickup \/ handleMouseMoveOnDrop \/ handleMouseMoveByDrop

SpecPickup == InitPickup /\ [][NextPickup]_vars

----------------------------------------------------------------------------
(* Particles, floating texts and a drop to their ends *)

\* SpecExpiry follows the tenth kill of a session and the power-up it drops
\* until that power-up has run out on the field.  Easy difficulty, wave
\* `ExpiryWave`: the player has shot nine enemies in the waves before (none
\* in the last 90 steps), two arrows are left, and a scout spawned
\* `ExpiryScoutAge` steps ago at the middle of the top edge is on its way
\* down.  It also follows the session one kill later: the tenth kill, more
\* than 90 steps ago, has dropped a bomb, and the last step has picked it up.
\* The player clicks and moves the pointer during the first
\* `ExpiryClicks` steps only; the spawner's draws are narrowed to scouts from
\* the middle of the top edge, and the lives of the particles of a handler
\* run to the shortest and the longest (Math.random() next to 0 and to 1).
ExpirySteps == 372
ExpiryClicks == 8
ExpiryWave == 7
ExpiryScoutAge == 34
Rnds == {0, 30 * LifeUnit - 1}

ExpiryScale == DIFFICULTY["easy"].enemySpeedMult10 * (100 + 4 * ExpiryWave)
ExpiryScoutBorn ==
    createEnemy(ENEMY_TYPES[1], ExpiryScale, [side |-> 0, along |-> cx, k |-> 2, tp |-> 0], NoPos)

ExpiryState(held) ==
    [ResetState("easy") EXCEPT
        !.wave = ExpiryWave,
        !.waveTimer = ExpiryScoutAge + 20,
        !.spawnTimer = ExpiryScoutAge,
        !.hp = HpAfterContacts("easy", 9000),
        !.score = (IF held = "bomb" THEN 10 ELSE 9)
                    * Earned(ENEMY_TYPES[1], [wave |-> ExpiryWave - 1, combo |-> 0]),
        !.totalKills = IF held = "bomb" THEN FirstPowerupKill ELSE FirstPowerupKill - 1,
        !.nextPowerupKill = IF held = "bomb" THEN FirstPowerupKill + 8 ELSE FirstPowerupKill,
        !.activePowerup = held,
        !.powerupTimer = IF held = "bomb" THEN 1 ELSE 0,
        !.particles = IF held = "bomb" THEN Sparks(12, 0) ELSE EmptyBag,
        !.floats = IF held = "bomb" THEN Floated(1, 0) ELSE <<>>,
        !.killStreak = 1,
        !.arrows = 2,
        !.enemies = <<MoveN(ExpiryScoutBorn, ExpiryScoutAge + 1, BackToStart)>>]

InitExpiry ==
    /\ SpeedInRange(ExpiryScoutBorn.vx, ExpiryScoutBorn.vy, ENEMY_TYPES[1].speed10 * ExpiryScale)
    /\ Untouched(ExpiryScoutBorn, ExpiryScoutAge + 1, BackToStart)
    /\ difficulty = "easy"
    /\ \E held \in {"null", "bomb"} :
          /\ s = ExpiryState(held)
          /\ hudState = Snapshot(ExpiryState(held))
    /\ mousePos = [x |-> cx, y |-> cy \div 2]
    /\ gameOverLog = <<>>
    /\ rafPending = 1
    /\ steps = 0
    /\ HostAtMount
    /\ ev = NoEv

shootExpiry == steps < ExpiryClicks /\ shootOf(Rnds)

handleMouseMoveExpiry == steps < ExpiryClicks /\ handleMouseMove

loopExpiry == LoopStepWith(ExpirySteps, ScoutFromTop, Rnds)

NextExpiry == loopExpiry \/ shootExpiry \/ handleMouseMoveExpiry

SpecExpiry == InitExpiry /\ [][NextExpiry]_vars

----------------------------------------------------------------------------
(* The end of a session *)

\* The effect's cleanup without its cancelAnimationFrame.
unmountKeepsFrame ==
    /\ screen = "game"
    /\ screen' = IF gameOverLog # <<>> THEN "gameover" ELSE "menu"
    /\ lastScore' = IF gameOverLog # <<>> THEN gameOverLog[Len(gameOverLog)] ELSE lastScore
    /\ lastWave' = IF gameOverLog # <<>> THEN hudState.wave ELSE lastWave
    /\ ev' = [NoEv EXCEPT !.kind = "cleanup"]
    /\ UNCHANGED <<difficulty, s, mousePos, hudState, gameOverLog, rafPending, steps,
                   leaderboard, stored, playerName, saves>>

\* The host leaves the game screen: for the game-over screen when
\* handleGameOver has been called (setLastScore, setLastWave, setScreen), for
\* the menu by its button otherwise.  The canvas is unmounted and the
\* effect's cleanup runs: cancelAnimationFrame(animRef.current), and the
\* listeners are removed.  The host renders between two handler runs, so that
\* animRef.current is the request made last, by the effect or by the last
\* run of loop: the cleanup takes one request back if one is pending.
unmount ==
    /\ screen = "game"
    /\ screen' = IF gameOverLog # <<>> THEN "gameover" ELSE "menu"
    /\ lastScore' = IF gameOverLog # <<>> THEN gameOverLog[Len(gameOverLog)] ELSE lastScore
    /\ lastWave' = IF gameOverLog # <<>> THEN hudState.wave ELSE lastWave
    /\ rafPending' = Max(0, rafPending - 1)
    /\ ev' = [NoEv EXCEPT !.kind = "cleanup"]
    /\ UNCHANGED <<difficulty, s, mousePos, hudState, gameOverLog, steps,
                   leaderboard, stored, playerName, saves>>

\* SpecStop follows the sessions of a late wave to their end: the game over,
\* the frame requested by the step that ended the session, and the host
\* leaving the game screen, at any moment of the session or after its end.
InitStop == \E d \in Difficulties : LateWave(d)

NextStop == loop \/ shoot \/ handleMouseMove \/ unmount

SpecStop == InitStop /\ [][NextStop]_vars

----------------------------------------------------------------------------
(* The leaderboard *)

TopN == 10

RECURSIVE SortByScore(_)
\* seq.sort((a, b) => b.score - a.score): descending by score, entries of
\* equal score in the order they had (the sort is stable).
SortByScore(seq) ==
    IF seq = <<>> THEN <<>>
    ELSE LET top == CHOOSE i \in 1..Len(seq) :
                        /\ \A j \in 1..Len(seq) : seq[j].score <= seq[i].score
                        /\ \A j \in 1..(i - 1) : seq[j].score < seq[i].score
         IN  <<seq[top]>> \o SortByScore(SubSeq(seq, 1, top - 1) \o SubSeq(seq, top + 1, Len(seq)))

\* The new leaderboard without its slice(0, 10).
UpdatedUncut(board, newEntry) == SortByScore(Append(board, newEntry))

\* [...leaderboard, newEntry].sort(...).slice(0, 10)
Updated(board, newEntry) ==
    LET sorted == SortByScore(Append(board, newEntry))
    IN  SubSeq(sorted, 1, Min(TopN, Len(sorted)))

\* SpecBoard follows the host between sessions: the game-over screen, the
\* leaderboard screen and the menu.  The canvas is not mounted; the session
\* that a start from the menu plays is taken as a whole, with the score and
\* the wave that handleGameOver is given at its end.  An entry is {name,
\* score, wave} (its date is never read) with the number of the save that
\* made it (history).  The name typed is upper case, without spaces and at
\* most 10 long, as the input field leaves it, so that trim, toUpperCase and
\* slice(0, 10) leave it as it is.  The host starts on the game-over screen
\* with the leaderboard it loaded on mount: nothing, or nine entries that
\* `Earlier` saves wrote.
MaxSaves == 3
Scores == {0, 40, 70}
Waves == {1, 2}
NameInputs == {"", "ROBIN"}
Earlier == <<40, 70, 0, 40, 90, 70, 40, 10, 70>>

RECURSIVE BoardAfter(_)
\* The leaderboard after one save for each score of the list.
BoardAfter(scores) ==
    IF scores = <<>> THEN <<>>
    ELSE Updated(BoardAfter(SubSeq(scores, 1, Len(scores) - 1)),
                 [name |-> "ARCHER", score |-> scores[Len(scores)], wave |-> 1,
                  n |-> Len(scores) - Len(Earlier)])

InitBoard ==
    /\ difficulty = "normal"
    /\ s = ResetState("normal")
    /\ mousePos = [x |-> 0, y |-> 0]
    /\ hudState = InitialHud
    /\ gameOverLog = <<>>
    /\ rafPending = 0
    /\ steps = 0
    /\ ev = NoEv
    /\ screen = "gameover"
    /\ \E loaded \in {<<>>, Earlier} :
          /\ leaderboard = BoardAfter(loaded)
          /\ stored = [present |-> loaded # <<>>, value |-> BoardAfter(loaded)]
    /\ \E score \in Scores : lastScore = score
    /\ \E wave \in Waves : lastWave = wave
    /\ playerName = "ARCHER"
    /\ saves = 0

\* saveScore, from the name field of the game-over screen.
saveScore ==
    /\ screen = "gameover"
    /\ saves < MaxSaves
    /\ \E nameInput \in NameInputs :
          LET name     == IF nameInput # "" THEN nameInput ELSE playerName
              newEntry == [name |-> name, score |-> lastScore, wave |-> lastWave,
                           n |-> saves + 1]
              updated  == Updated(leaderboard, newEntry)
          IN  /\ leaderboard' = updated
              /\ stored' = [present |-> TRUE, value |-> updated]
              /\ playerName' = name
    /\ screen' = "leaderboard"
    /\ saves' = saves + 1
    /\ ev' = [NoEv EXCEPT !.kind = "saveScore"]
    /\ UNCHANGED <<difficulty, s, mousePos, hudState, gameOverLog, rafPending, steps,
                   lastScore, lastWave>>

\* The button that clears the leaderboard, shown while it has entries.
clearLeaderboard ==
    /\ screen = "leaderboard"
    /\ Len(leaderboard) > 0
    /\ leaderboard' = <<>>
    /\ stored' = [present |-> FALSE, value |-> <<>>]
    /\ ev' = [NoEv EXCEPT !.kind = "clear"]
    /\ UNCHANGED <<difficulty, s, mousePos, hudState, gameOverLog, rafPending, steps,
                   screen, lastScore, lastWave, playerName, saves>>

\* The buttons that lead to the leaderboard and back to the menu.
showScreen ==
    /\ \/ screen \in {"menu", "gameover"} /\ screen' = "leaderboard"
       \/ screen = "leaderboard" /\ screen' = "menu"
    /\ ev' = [NoEv EXCEPT !.kind = "screen"]
    /\ UNCHANGED <<difficulty, s, mousePos, hudState, gameOverLog, rafPending, steps,
                   leaderboard, stored, lastScore, lastWave, playerName, saves>>

\* A session started from the menu or the game-over screen, up to the
\* handleGameOver(score) that ends it: setLastScore, setLastWave, setScreen.
sessionOver ==
    /\ screen \in {"menu", "gameover"}
    /\ \E score \in Scores : lastScore' = score
    /\ \E wave \in Waves : lastWave' = wave
    /\ screen' = "gameover"
    /\ ev' = [NoEv EXCEPT !.kind = "session"]
    /\ UNCHANGED <<difficulty, s, mousePos, hudState, gameOverLog, rafPending, steps,
                   leaderboard, stored, playerName, saves>>

NextBoard == saveScore \/ clearLeaderboard \/ showScreen \/ sessionOver

SpecBoard == InitBoard /\ [][NextBoard]_vars

----------------------------------------------------------------------------
(* The host around the canvas *)

\* SpecHost follows the canvas together with the host that renders it.
\* emitState calls the host's setHudState with a new object, so the host
\* renders again; each render of the host makes a new handleGameOver, the
\* canvas gets it as its onGameOver prop, and the effect, which has
\* onGameOver among its dependencies, runs its cleanup and then its body
\* again.  The state updates of one handler run are rendered together, after
\* the handler has returned and before the next frame or input event: when
\* the handler has called onGameOver that render unmounts the canvas
\* (`unmount`), and otherwise it runs the effect again (`rerender`).
\* A behaviour starts at the mount of a session or in a late wave, and may go
\* on through the game-over screen, the leaderboard and the menu to a new
\* session, on any difficulty.

\* The host has state updates of the last handler run to render, and the
\* canvas stays mounted.
RenderPending ==
    /\ screen = "game" /\ gameOverLog = <<>>
    /\ ev.kind \in {"shoot", "loop"} /\ ev.emits > 0

\* The effect running again without the cancelAnimationFrame of its cleanup.
rerenderKeepsFrame ==
    /\ RenderPending
    /\ s' = ResetState(difficulty)
    /\ rafPending' = rafPending + 1
    /\ ev' = [NoEv EXCEPT !.kind = "effect"]
    /\ UNCHANGED <<host, difficulty, mousePos, hudState, gameOverLog, steps>>

\* The effect's cleanup (cancelAnimationFrame(animRef.current), listeners
\* removed) and its body again: the "Reset state" block, the listeners, and
\* requestAnimationFrame(loop).  Nothing is emitted.
rerender ==
    /\ RenderPending
    /\ s' = ResetState(difficulty)
    /\ rafPending' = Max(0, rafPending - 1) + 1
    /\ ev' = [NoEv EXCEPT !.kind = "effect"]
    /\ UNCHANGED <<host, difficulty, mousePos, hudState, gameOverLog, steps>>

\* The menu's start button, with the difficulty the settings screen has set:
\* the host mounts a new canvas, whose effect runs for the first time.  The
\* host keeps its hudState.
startGame ==
    /\ screen = "menu"
    /\ screen' = "game"
    /\ \E d \in Difficulties : difficulty' = d /\ s' = ResetState(d)
    /\ mousePos' = [x |-> 0, y |-> 0]
    /\ gameOverLog' = <<>>
    /\ rafPending' = rafPending + 1
    /\ ev' = [NoEv EXCEPT !.kind = "mount"]
    /\ UNCHANGED <<hudState, steps, leaderboard, stored, lastScore, lastWave, playerName, saves>>

InitHost == \E d \in Difficulties : Fresh(d) \/ LateWave(d)

loopHost == ~RenderPending /\ loop

shootHost == ~RenderPending /\ shoot

handleMouseMoveHost == ~RenderPending /\ handleMouseMove

NextHost ==
    loopHost \/ shootHost \/ handleMouseMoveHost \/ rerender \/ unmount \/ showScreen \/ startGame

SpecHost == InitHost /\ [][NextHost]_vars

----------------------------------------------------------------------------
(* A whole reload *)

\* SpecReload follows a reload from the shot that starts it to a few steps
\* past its end.  It starts in the state shoot leaves when the last arrow of
\* LastArrowState is shot, with the pointer left of the bow.
ReloadSlack == 3

ReloadStart(d) ==
    /\ difficulty = d
    /\ steps = 0
    /\ mousePos = [x |-> cx \div 2, y |-> cy]
    /\ \E c \in {shootRun(Ctx(LastArrowState(d), Snapshot(LastArrowState(d)), <<>>, NoEv),
                           [x |-> cx \div 2, y |-> cy])} :
          /\ s = c.s
          /\ hudState = c.hud
          /\ gameOverLog = c.log
          /\ ev = [c.ev EXCEPT !.kind = "shoot"]
    /\ rafPending = 1
    /\ HostAtMount

InitReload == \E d \in Difficulties : ReloadStart(d)

loopReload == LoopStep(diff.reloadTime + ReloadSlack)

NextReload == loopReload \/ shoot

SpecReload == InitReload /\ [][NextReload]_vars

----------------------------------------------------------------------------
(* Properties *)

\* A step of the click handler (the pointer stays, the step counter stays).
ShootStep == ev'.kind = "shoot" /\ mousePos' = mousePos /\ steps' = steps

\* C1: a shot attempt while ammo is 0 or a reload is in progress adds no
\* projectile, triggers no bomb explosion (no enemy removed, no score), and
\* leaves ammo unchanged.
C1_BlockedShot ==
    [][(ShootStep /\ (s.arrows <= 0 \/ s.reloading)) =>
          /\ s'.projectiles = s.projectiles
          /\ s'.arrows = s.arrows
          /\ ~ev'.bombed /\ ev'.fired = 0
          /\ s'.enemies = s.enemies /\ s'.score = s.score]_vars

\* A shot has been attempted during a reload, with the cooldown over.
C1_Witness ==
    /\ ev.kind = "shoot" /\ ~ev.ran
    /\ s.reloading /\ s.arrows = 0 /\ s.shootCooldown = 0 /\ s.alive
    /\ mousePos \in Pointers

\* C2: once a reload has started (the shot that brings ammo to 0), ammo stays
\* 0 and reloading stays true during the next reloadTime - 1 steps, and the
\* reloadTime-th step (150 on easy, 180 on normal, 220 on hard) makes ammo
\* maxAmmo and reloading false; the reload completes in no other step.
\* (SpecReload counts the steps from the shot that starts the reload.)
C2_ReloadLength ==
    /\ diff.reloadTime = (CASE difficulty = "easy" -> 150 [] difficulty = "normal" -> 180
                             [] difficulty = "hard" -> 220)
    /\ steps < diff.reloadTime => s.reloading /\ s.arrows = 0 /\ ~ev.reloadDone
    /\ steps >= diff.reloadTime => ~s.reloading
    /\ (steps = diff.reloadTime /\ ev.kind = "loop") => ev.reloadDone /\ s.arrows = s.maxArrows
    /\ ev.reloadDone => steps = diff.reloadTime

\* The reload of the hard difficulty has just completed, in its 220th step.
C2_Witness ==
    /\ difficulty = "hard" /\ steps = 220
    /\ ev.reloadDone /\ ~s.reloading /\ s.arrows = 5

\* C3 as stated: in the step that completes the reload, reloadProgress is 1 in
\* the state and in the snapshot emitted to the host, with ammo = maxAmmo.
C3_ProgressIsOne ==
    ev.reloadDone =>
        /\ s.reloadProgress = diff.reloadTime
        /\ hudState.reloadProgress = diff.reloadTime
        /\ s.arrows = s.maxArrows /\ hudState.arrows = s.maxArrows

\* C3, amended: in the step that completes the reload, reloadProgress is
\* computed as 1 and set back to 0 before the snapshot is emitted: the state
\* and the snapshot hold reloadProgress = 0, ammo = maxAmmo, reloading = false.
C3_ProgressIsReset ==
    ev.reloadDone =>
        /\ ev.progressAtDone = diff.reloadTime
        /\ s.reloadProgress = 0 /\ hudState.reloadProgress = 0
        /\ s.arrows = s.maxArrows /\ hudState.arrows = s.maxArrows
        /\ ~s.reloading /\ ~hudState.reloading

\* The reload of the normal difficulty has just completed and been emitted.
C3_Witness ==
    /\ difficulty = "normal" /\ ev.kind = "loop" /\ ev.reloadDone /\ ev.emits > 0
    /\ hudState.arrows = 8

\* C4: in any session the game-over callback is invoked at most once, and
\* exactly once if health reaches 0, also when several enemies contact the bow
\* in the step in which health reaches 0.
C4_CalledOnce ==
    /\ Len(gameOverLog) <= 1
    /\ s.hp = 0 => Len(gameOverLog) = 1

\* C5: the score passed to the game-over callback is final: after the call
\* the score of the session never differs from the reported value.
C5_ReportedScoreIsFinal ==
    \A i \in 1..Len(gameOverLog) : s.score = gameOverLog[i]

\* C6: game over is terminal: once alive is false, every later step
\* invocation and every shot attempt leaves the whole session state
\* unchanged, and alive never becomes true again.
C6_GameOverTerminal == [][~s.alive => s' = s]_vars

\* After game over loop has been invoked (and has returned without requesting
\* a frame) and a shot has been attempted, with arrows left and no cooldown.
C6_Witness ==
    /\ ~s.alive /\ rafPending = 0 /\ ev.kind = "shoot"
    /\ s.arrows > 0 /\ s.shootCooldown = 0 /\ mousePos \in Pointers

\* What the contacts of the last step did, one after the other.
ContactsAsClaimed ==
    \A j \in 1..Len(ev.contacts) :
        LET ct == ev.contacts[j]
        IN  /\ (ct.x - cx) * (ct.x - cx) + (ct.y - cy) * (ct.y - cy)
                   < (ct.radius + 22) * (ct.radius + 22)
            /\ ct.hpAfter = Max(0, ct.hpBefore - ct.damage * diff.playerDamageMult10 * 17)
            /\ ct.marked /\ ct.i \in ev.marked
            /\ ct.combo = 0 /\ ct.comboTimer = 0 /\ ct.killStreak = 0
            /\ ct.hpBefore = IF j = 1 THEN ct.hpBefore ELSE ev.contacts[j - 1].hpAfter
            /\ j = Len(ev.contacts) => s.hp = ct.hpAfter

\* C7: when an enemy is nearer to the bow than its radius + 22 after its
\* move, health becomes max(0, health - damage x playerDamageMult x 0.017), the
\* enemy is marked for removal and combo, combo timer and kill streak become
\* 0; health stays within [0, 100] and never increases.
C7_Contact ==
    /\ [](ContactsAsClaimed /\ s.hp >= 0 /\ s.hp <= 100 * HpUnit)
    /\ [][s'.hp <= s.hp]_vars

\* Two enemies have touched the bow in one step: health survived the first
\* contact and was cut off at 0 by the second.
C7_Witness ==
    /\ Len(ev.contacts) = 2
    /\ ev.contacts[1].hpAfter > 0
    /\ ev.contacts[2].hpBefore < ev.contacts[2].damage * diff.playerDamageMult10 * 17
    /\ s.hp = 0

\* C8: the hit points of every live enemy stay within [0, max]; a projectile
\* hit takes exactly 1, so that after n hits that did not kill it an enemy
\* has max - n.
C8_EnemyHp ==
    /\ \A i \in 1..Len(s.enemies) :
           /\ s.enemies[i].hp >= 0 /\ s.enemies[i].hp <= s.enemies[i].maxHp
           /\ s.enemies[i].hp = s.enemies[i].maxHp - s.enemies[i].hits
    /\ \A j \in 1..Len(ev.hits) :
           /\ ev.hits[j].hpAfter = ev.hits[j].hpBefore - 1
           /\ ev.hits[j].hpBefore = ev.hits[j].maxHp - ev.hits[j].hitsBefore

\* A projectile of the last step has hit an enemy that had been hit before,
\* and the enemy lives with two hits taken.
C8_Witness ==
    /\ \E j \in 1..Len(ev.hits) : ev.hits[j].hitsBefore = 1 /\ ev.hits[j].hpAfter >= 1
    /\ \E i \in 1..Len(s.enemies) :
           s.enemies[i].hits = 2 /\ s.enemies[i].hp = s.enemies[i].maxHp - 2 /\ s.enemies[i].hp > 0

\* C9: each enemy awards score at most once: an enemy whose hit points have
\* reached 0 or that has been marked for removal in the current step is
\* skipped by all remaining projectile tests of that step and is absent from
\* the enemy list at the start of the next step.
C9_ScoredOnce ==
    /\ \A a, b \in 1..Len(ev.kills) : a # b => ev.kills[a].ei # ev.kills[b].ei
    /\ \A j \in 1..Len(ev.hits) :
           /\ ev.hits[j].hpBefore >= 1
           /\ \A k \in 1..Len(ev.contacts) : ev.hits[j].ei # ev.contacts[k].i
           /\ \A k \in 1..(j - 1) : ev.hits[k].ei = ev.hits[j].ei => ev.hits[k].hpAfter >= 1
    /\ \A j \in 1..Len(ev.kills) : ev.kills[j].ei \in ev.marked
    /\ \A j \in 1..Len(ev.contacts) : ev.contacts[j].i \in ev.marked
    /\ (ev.kind = "loop" /\ ev.ran) =>
           Len(s.enemies) = ev.before - Cardinality(ev.marked)
              + 2 * Cardinality({j \in 1..Len(ev.kills) : ev.kills[j].id = "splitter"})
    /\ \A i \in 1..Len(s.enemies) : s.enemies[i].hp >= 1

\* Two projectiles have overlapped one enemy in one step: the first killed
\* it, the second was not tested against it, and the enemy is gone.
C9_Witness ==
    /\ \E j \in 1..Len(ev.skips) : \E k \in 1..Len(ev.kills) :
           /\ ev.skips[j].ei = ev.kills[k].ei
           /\ ev.skips[j].pi > ev.kills[k].pi
           /\ ev.skips[j].ei \in ev.marked
    /\ Len(s.enemies) = ev.before - Cardinality(ev.marked)

OneHitKills ==
    {k \in 1..Len(ev.kills) :
        \E h \in 1..Len(ev.hits) :
            /\ ev.hits[h].pi = ev.kills[k].pi /\ ev.hits[h].ei = ev.kills[k].ei
            /\ ev.hits[h].maxHp = 1}

\* Every hit on an enemy with 1 hit point in all is a kill, the enemy is
\* marked, and the enemies left are those before less the marked, plus offspring.
OneHitRemoved ==
    /\ \A h \in 1..Len(ev.hits) :
           ev.hits[h].maxHp = 1 =>
              /\ ev.hits[h].hpBefore = 1 /\ ev.hits[h].hpAfter = 0
              /\ ev.hits[h].ei \in ev.marked
              /\ \E k \in OneHitKills :
                     ev.kills[k].pi = ev.hits[h].pi /\ ev.kills[k].ei = ev.hits[h].ei
    /\ (ev.kind = "loop" /\ ev.ran) =>
           Len(s.enemies) = ev.before - Cardinality(ev.marked)
              + 2 * Cardinality({j \in 1..Len(ev.kills) : ev.kills[j].id = "splitter"})

ProjectileKillsCount ==
    /\ \A k \in 1..Len(ev.kills) :
           IF k < Len(ev.kills) THEN ev.kills[k + 1].combo = ev.kills[k].combo + 1
                                ELSE s.combo = ev.kills[k].combo + 1
    /\ ev.kills # <<>> => s.comboTimer = 90

\* A shot that set off a bomb and killed at least one enemy with it.
BombKillStep == ShootStep /\ ev'.bombed /\ s'.totalKills > s.totalKills

\* C12: every enemy kill - by a projectile hit or by a bomb explosion -
\* increases the combo counter by exactly 1 and resets the combo countdown to
\* its full window of 90 steps.
C12_EveryKillCounts ==
    /\ []ProjectileKillsCount
    /\ [][BombKillStep => /\ s'.combo = s.combo + (s'.totalKills - s.totalKills)
                          /\ s'.comboTimer = 90]_vars

\* No projectile kill and no bow contact since the kill SpecCombo starts from,
\* but for the `n` kills of the last step.
QuietSinceKill(n) ==
    /\ s.totalKills = ComboState.totalKills + n
    /\ s.hp = ComboState.hp

\* C13: if neither a projectile kill nor a bow contact occurs during the 90
\* steps that follow a projectile kill, the combo counter keeps its value
\* through the first 89 of those steps and is exactly 0 after the 90th; a
\* kill made 90 or more steps after the previous one starts a new combo at 1.
C13_ComboWindow ==
    /\ QuietSinceKill(0) =>
           s.combo = IF steps <= 89 THEN ComboState.combo ELSE 0
    /\ (ev.kills # <<>> /\ QuietSinceKill(Len(ev.kills)) /\ steps >= 90) =>
           /\ ev.kills[1].combo = 0
           /\ s.combo = Len(ev.kills)

\* The next kill was made in the 90th step after the kill before it, and
\* the combo is 1.
C13_Witness ==
    /\ steps = 90 /\ ev.kind = "loop"
    /\ Len(ev.kills) = 1 /\ QuietSinceKill(1)
    /\ ev.kills[1].combo = 0 /\ s.combo = 1

\* The offspring the projectile kills of the last step produced: two for
\* each splitter killed, none for any other kill, each a one-hit enemy within
\* 25 pixels of the place the splitter died at.
ProjectileKillSplits ==
    /\ \A k \in 1..Len(ev.kills) :
           Cardinality({o \in 1..Len(ev.offspring) : ev.offspring[o].parent = ev.kills[k].ei})
              = IF ev.kills[k].id = "splitter" THEN 2 ELSE 0
    /\ \A o \in 1..Len(ev.offspring) :
           /\ \E k \in 1..Len(ev.kills) :
                  ev.kills[k].ei = ev.offspring[o].parent /\ ev.kills[k].id = "splitter"
           /\ ev.offspring[o].child.maxHp = 1
           /\ ev.offspring[o].child.x - ev.offspring[o].px \in -25..25
           /\ ev.offspring[o].child.y - ev.offspring[o].py \in -25..25
    /\ (ev.kind = "loop" /\ ev.ran) =>
           Len(s.enemies) = ev.before - Cardinality(ev.marked) + Len(ev.offspring)

\* The splitters among the enemies nearer than 180 to the pointer.
SplittersInBlast ==
    {i \in 1..Len(s.enemies) :
        /\ s.enemies[i].id = "splitter"
        /\ (s.enemies[i].x - mousePos.x) * (s.enemies[i].x - mousePos.x)
             + (s.enemies[i].y - mousePos.y) * (s.enemies[i].y - mousePos.y) < 180 * 180}

\* C14: every time a splitter is killed, by a projectile hit or by a bomb
\* explosion, exactly two offspring with max health 1 are added to the live
\* enemies near its death position, and no splitter produces offspring more
\* than once.
C14_SplitterSplits ==
    /\ []ProjectileKillSplits
    /\ [][(ShootStep /\ ev'.bombed) =>
             Len(s'.enemies) = Len(s.enemies) - (s'.totalKills - s.totalKills)
                                  + 2 * Cardinality(SplittersInBlast)]_vars

\* A step of loop that ran its body.
LoopRan == ev'.kind = "loop" /\ ev'.ran /\ steps' = steps + 1

\* C15: an enemy with the bounce pattern is never removed for leaving the
\* screen: it leaves the live enemies only by being killed (projectile or
\* bomb) or by contacting the bow.
C15_BouncerStays ==
    [][/\ LoopRan =>
            \A i \in 1..Len(s.enemies) :
               (s.enemies[i].pattern = "bounce" /\ i \in ev'.marked) =>
                  \/ \E k \in 1..Len(ev'.kills) : ev'.kills[k].ei = i
                  \/ \E k \in 1..Len(ev'.contacts) : ev'.contacts[k].i = i
       /\ LoopRan => Len(s'.enemies) = Len(s.enemies) + (IF ev'.spawned > 0 THEN 1 ELSE 0)
                                         - Cardinality(ev'.marked) + Len(ev'.offspring)
       /\ ShootStep => Len(s.enemies) - Len(s'.enemies) = s'.totalKills - s.totalKills]_vars

\* A bouncer is off the screen after a step of loop and is still among the
\* live enemies.
C15_Witness ==
    /\ ev.kind = "loop" /\ ev.ran /\ ev.marked = {}
    /\ \E i \in 1..Len(s.enemies) :
           /\ s.enemies[i].pattern = "bounce"
           /\ (s.enemies[i].x < 0 \/ s.enemies[i].x > 200
                  \/ s.enemies[i].y < 0 \/ s.enemies[i].y > 200)

\* C16: when a bounce-pattern enemy is beyond a screen boundary after its
\* move (x - radius < 0, x + radius > W, y - radius < 0 or y + radius > H),
\* only the velocity component perpendicular to that boundary can change:
\* afterwards it points back into the screen with unchanged magnitude, and the
\* component parallel to the boundary is unchanged.
C16_Bounce ==
    \A b \in 1..Len(ev.bounces) :
        LET at == ev.bounces[b]
            left   == at.x - at.radius < 0
            right  == at.x + at.radius > 200
            top    == at.y - at.radius < 0
            bottom == at.y + at.radius > 200
        IN  /\ left => at.vxAfter >= 0
            /\ right => at.vxAfter <= 0
            /\ top => at.vyAfter >= 0
            /\ bottom => at.vyAfter <= 0
            /\ at.vxAfter * at.vxAfter = at.vxBefore * at.vxBefore
            /\ at.vyAfter * at.vyAfter = at.vyBefore * at.vyBefore
            /\ ~(left \/ right) => at.vxAfter = at.vxBefore
            /\ ~(top \/ bottom) => at.vyAfter = at.vyBefore

\* A bouncer was beyond the bottom boundary after its move: it heads up, and
\* its horizontal velocity is what it was.
C16_Witness ==
    \E b \in 1..Len(ev.bounces) :
        /\ ev.bounces[b].y + ev.bounces[b].radius > 200
        /\ ev.bounces[b].vyAfter < 0
        /\ ev.bounces[b].vxAfter = ev.bounces[b].vxBefore

\* The wave goes up by 1, with the wave timer put back to 0 and the announce
\* window started, in the steps of loop that make the wave timer `n`, and
\* changes in no other step.
WaveUpAt(n) ==
    /\ (LoopRan /\ s.waveTimer + 1 = n) =>
          /\ s'.wave = s.wave + 1
          /\ s'.waveTimer = 0
          /\ s'.waveAnnounce > 0
    /\ ~(LoopRan /\ s.waveTimer + 1 = n) => s'.wave = s.wave

\* C17: on the step in which the wave timer reaches 700 steps counted from
\* session start or from the previous wave increment, wave increases by
\* exactly 1, the wave timer is reset to 0 and the wave-announce window is
\* started; wave changes at no other time and never decreases.
C17_WaveEvery700 == [][WaveUpAt(700)]_vars

\* A shot attempt that got past the early returns of shoot.
ShotFired == ShootStep /\ ev'.ran

\* C18: after every shot attempt and every step, 0 <= ammo <= maxAmmo and
\* reloading is true exactly when ammo is 0; the successful shot that takes
\* ammo to 0 (on normal difficulty the 8th shot from full ammo) sets
\* reloading = true and reloadProgress = 0 in the same action, and no earlier
\* shot starts a reload.
C18_AmmoAndReload ==
    /\ [](/\ s.arrows >= 0 /\ s.arrows <= s.maxArrows
          /\ s.reloading <=> s.arrows = 0
          /\ s.maxArrows = CASE difficulty = "easy" -> 12
                              [] difficulty = "normal" -> 8
                              [] difficulty = "hard" -> 5)
    /\ [][ShotFired =>
             /\ s.arrows = 1 => /\ s'.arrows = 0 /\ s'.reloading /\ s'.reloadProgress = 0
                                /\ hudState'.reloading /\ hudState'.reloadProgress = 0
                                /\ hudState'.arrows = 0
             /\ s.arrows > 1 => ~s'.reloading /\ s'.arrows > 0]_vars

\* On normal difficulty the shot with the last of the 8 arrows has started
\* the reload.
C18_Witness ==
    /\ difficulty = "normal" /\ ev.kind = "shoot" /\ ev.ran /\ ev.reloadStarted
    /\ s.arrows = 0 /\ s.reloading /\ s.reloadProgress = 0 /\ s.reloadTimer = 180

\* The projectiles one shot adds under the power-up st.activePowerup.
ShotsOf(st) ==
    CASE st.activePowerup = "multi" -> 3
      [] st.activePowerup = "bomb" -> 0
      [] OTHER -> 1

\* C19: every successful shot decrements ammo by exactly 1 whatever power-up is
\* active; a normal or piercing shot adds exactly one projectile, a multi-shot
\* exactly three, and a bomb shot none.
C19_ShotCost ==
    [][ShotFired =>
         /\ s'.arrows = s.arrows - 1
         /\ hudState'.arrows = s.arrows - 1
         /\ Len(s'.projectiles) = Len(s.projectiles) + ShotsOf(s)
         /\ SubSeq(s'.projectiles, 1, Len(s.projectiles)) = s.projectiles
         /\ \A i \in (Len(s.projectiles) + 1)..Len(s'.projectiles) :
               /\ s'.projectiles[i].x = cx /\ s'.projectiles[i].y = cy
               /\ s'.projectiles[i].piercing = (s.activePowerup = "pierce")
         /\ s'.enemies # s.enemies => s.activePowerup = "bomb"]_vars

\* A multi-shot has added its three projectiles and taken one arrow of three.
C19_Witness ==
    /\ ev.kind = "shoot" /\ ev.ran /\ ev.fired = 3
    /\ s.activePowerup = "multi" /\ Len(s.projectiles) = 3 /\ s.arrows = 2

\* C20: a shot attempt with the pointer exactly at the centre of the board
\* changes nothing: no projectile is created, ammo, cooldown and reload state
\* are unchanged, and an active bomb power-up is not consumed.
C20_CentreShot ==
    [][(ShootStep /\ mousePos = [x |-> cx, y |-> cy]) =>
         /\ s' = s
         /\ hudState' = hudState
         /\ gameOverLog' = gameOverLog
         /\ ~ev'.ran /\ ev'.fired = 0 /\ ~ev'.bombed /\ ev'.emits = 0]_vars

\* A shot has been attempted at the centre with a bomb held, arrows left, no
\* cooldown and no reload, and the bomb is still held.
C20_Witness ==
    /\ ev.kind = "shoot" /\ ~ev.ran /\ mousePos = [x |-> cx, y |-> cy]
    /\ s.activePowerup = "bomb" /\ s.powerupTimer = 1
    /\ s.alive /\ ~s.reloading /\ s.arrows = 3 /\ s.shootCooldown = 0
    /\ s.projectiles = <<>> /\ Len(s.enemies) = 1

RECURSIVE BlastScore(_, _, _)
\* points x wave summed over the enemies of es nearer than 180 to the point mp.
BlastScore(es, mp, wave) ==
    IF es = <<>> THEN 0
    ELSE (IF Dist2(es[1].x, es[1].y, mp.x, mp.y) < 180 * 180 THEN es[1].points * wave ELSE 0)
            + BlastScore(Tail(es), mp, wave)

\* C21: a successful shot fired while the bomb power-up is active removes
\* exactly the enemies whose distance to the pointer is below 180, adds
\* points x wave to the score for each removed enemy, creates no projectile,
\* and leaves no power-up active afterwards.
C21_BombShot ==
    [][(ShotFired /\ s.activePowerup = "bomb") =>
         /\ s'.enemies = SelectSeq(s.enemies,
                LAMBDA e : Dist2(e.x, e.y, mousePos.x, mousePos.y) >= 180 * 180)
         /\ s'.score = s.score + BlastScore(s.enemies, mousePos, s.wave)
         /\ s'.projectiles = s.projectiles
         /\ ev'.fired = 0
         /\ s'.activePowerup = "null" /\ s'.powerupTimer = 0
         /\ hudState'.score = s'.score]_vars

\* A bomb has gone off and removed an enemy.
C21_Witness ==
    /\ ev.kind = "shoot" /\ ev.ran /\ ev.bombed /\ ev.blasted >= 1
    /\ s.activePowerup = "null" /\ s.score > 0

\* C22: after a bomb power-up is picked up it remains the active power-up
\* until the next successful shot consumes it (or another pickup replaces
\* it); the per-step power-up timer never deactivates a bomb that has not
\* been fired.
C22_BombWaitsForShot ==
    [][(s.activePowerup = "bomb" /\ s'.activePowerup # "bomb") =>
          \/ ShotFired
          \/ LoopRan /\ ev'.picked # <<>>]_vars

\* The pickups of the list that the coming step finds alive and nearer
\* than 36 to the pointer, and those it finds alive and no nearer.
LiveNear ==
    SelectSeq(s.powerups,
        LAMBDA pu : pu.life > 1 /\ Dist2(mousePos.x, mousePos.y, pu.x, pu.y) < 36 * 36)

LiveFar ==
    SelectSeq(s.powerups,
        LAMBDA pu : pu.life > 1 /\ Dist2(mousePos.x, mousePos.y, pu.x, pu.y) >= 36 * 36)

\* What a step does to the power-ups when no kill of the step drops one.
PickupStep ==
    /\ s'.powerups = [i \in 1..Len(LiveFar) |-> [LiveFar[i] EXCEPT !.life = @ - 1]]
    /\ Len(ev'.picked) = Len(LiveNear)
    /\ IF LiveNear # <<>>
       THEN /\ s'.activePowerup = LiveNear[Len(LiveNear)].type
            /\ s'.powerupTimer = IF s'.activePowerup = "bomb" THEN 1 ELSE 360
       ELSE IF s.powerupTimer > 1
       THEN s'.activePowerup = s.activePowerup /\ s'.powerupTimer = s.powerupTimer - 1
       ELSE s'.activePowerup = "null" /\ s'.powerupTimer = 0

\* The timer of the active power-up, counted from its pickup.
TimerSincePickup ==
    /\ (s.activePowerup \in {"multi", "pierce", "rapid"}) =>
          ((s.powerupTimer = 360 - (steps - 1) /\ steps \in 1..360)
           \/ (s.powerupTimer = (PowerupTime - PickupHeld) - steps /\ s.powerupTimer >= 1))
    /\ (s.activePowerup = "bomb") => (s.powerupTimer = 1 /\ steps = 1)
    /\ (s.activePowerup = "null") => (s.powerupTimer = 0)
    /\ (steps > 360) => (s.activePowerup = "null")

\* C23: when during a step the pointer is closer than pickup radius + 20
\* (distance < 36) to a live power-up pickup, that pickup is removed and its
\* kind becomes the active power-up, replacing whatever power-up was active,
\* with the duration timer set afresh; a non-bomb power-up then deactivates
\* exactly 360 steps after its pickup unless it is replaced first.  Here the
\* only step that can pick the power-up up is the first, so that a power-up
\* picked up is active with 360 - (steps - 1) on its timer up to step 360,
\* and none is active from step 361 on.
C23_PickupAndExpiry ==
    /\ [][(LoopRan /\ ev'.kills = <<>>) => PickupStep]_vars
    /\ []TimerSincePickup

\* A power-up picked up in the first step, in place of the one held, is in
\* the last step of its 360.
C23_Witness ==
    /\ steps = 360 /\ ev.kind = "loop" /\ ev.ran
    /\ s.activePowerup = "multi" /\ s.powerupTimer = 1 /\ s.powerups = <<>>

\* The fields of the session state that a snapshot carries.
Shown(st) ==
    <<st.hp, st.score, st.wave, st.arrows, st.reloading, st.reloadProgress,
      st.combo, st.killStreak>>

\* C24: whenever a step or a shot changes health, score, wave, ammo, the
\* reload flag or progress, combo or kill streak, a snapshot is emitted
\* afterwards within the same step or action, so that when the step or action
\* ends the most recently emitted snapshot equals the live state on all of
\* those fields.
C24_SnapshotFollows ==
    [][Shown(s') # Shown(s) =>
         /\ ev'.emits >= 1
         /\ hudState'.hp = s'.hp /\ hudState'.score = s'.score
         /\ hudState'.wave = s'.wave /\ hudState'.arrows = s'.arrows
         /\ hudState'.reloading = s'.reloading
         /\ hudState'.reloadProgress = s'.reloadProgress
         /\ hudState'.combo = s'.combo /\ hudState'.killStreak = s'.killStreak]_vars

\* A step has seen a bow contact and, after it, a kill, and has emitted a
\* snapshot for each.
C24_Witness ==
    /\ ev.kind = "loop" /\ ev.contacts # <<>> /\ ev.kills # <<>> /\ ev.emits >= 2
    /\ hudState.score = s.score /\ hudState.combo = 1 /\ s.combo = 1
    /\ hudState.hp = s.hp

\* C25: after any sequence of save-score and clear operations, the
\* leaderboard (in memory and as written to storage) holds at most 10 entries
\* in non-increasing order of score, and a newly saved entry is absent only
\* if 10 entries with scores at least as high are kept.
C25_TopTen ==
    /\ [](/\ Len(leaderboard) <= 10
          /\ \A i \in 1..Len(leaderboard) : \A j \in 1..Len(leaderboard) :
                i < j => leaderboard[i].score >= leaderboard[j].score
          /\ stored.value = leaderboard
          /\ stored.present <=> leaderboard # <<>>)
    /\ [][saves' = saves + 1 =>
            \/ \E i \in 1..Len(leaderboard') :
                  /\ leaderboard'[i].n = saves' /\ leaderboard'[i].score = lastScore
                  /\ leaderboard'[i].wave = lastWave
            \/ /\ Len(leaderboard') = 10
               /\ \A i \in 1..10 : leaderboard'[i].score >= lastScore]_vars

\* A save has left its entry out of a full leaderboard, and one has put its
\* entry in and pushed the last one out.
C25_Witness ==
    /\ ev.kind = "saveScore" /\ Len(leaderboard) = 10 /\ saves = 2
    /\ \E i \in 1..10 : leaderboard[i].n = 1
    /\ \A i \in 1..10 : leaderboard[i].n # 2

LoopReturned ==
    /\ ev'.kind = "loop" /\ ~ev'.ran /\ ev' # ev
    /\ mousePos' = mousePos /\ screen' = screen

C27_ScoreMonotonic ==
    /\ [](s.score >= 0 /\ hudState.score >= 0)
    /\ [][s'.score >= s.score /\ hudState'.score >= hudState.score]_vars
    /\ [][s'.score # s.score =>
            \/ LoopRan /\ ev'.kills # <<>>
            \/ ShotFired /\ ev'.bombed /\ ev'.blasted >= 1]_vars
    /\ [][(LoopRan /\ ev'.kills = <<>>) => s'.score = s.score]_vars

\* A step with a bow contact and no kill has left a positive score as it was.
C27_Witness ==
    /\ ev.kind = "loop" /\ ev.contacts # <<>> /\ ev.kills = <<>>
    /\ s.score > 0 /\ hudState.score = s.score /\ s.alive

\* The enemies that the removal pass of the step finds marked: of those the
\* enemy update saw, the ones on the bow and the non-bounce ones beyond the
\* 220 margin; and of all, the ones without health.
ToRemove ==
    {i \in 1..Len(ev'.atRemoval) :
        LET e == ev'.atRemoval[i]
        IN  \/ e.hp <= 0
            \/ /\ i <= ev'.before
               /\ \/ Dist2(e.x, e.y, cx, cy) < (e.radius + 22) * (e.radius + 22)
                  \/ /\ e.pattern # "bounce"
                     /\ (e.x < -220 \/ e.x > W + 220 \/ e.y < -220 \/ e.y > H + 220)}

\* The enemies of the list that are not marked, in the order of the list.
Unmarked(es, marked) ==
    LET keep == {i \in 1..Len(es) : i \notin marked}
        nth(k) == CHOOSE i \in keep : Cardinality({j \in keep : j < i}) = k - 1
    IN  [k \in 1..Cardinality(keep) |-> es[nth(k)]]

\* C28: the removal pass of a step removes exactly the enemies marked during
\* that step (bow contact, off-screen exit of a non-bounce enemy beyond the
\* 220 margin, or health reaching 0), each exactly once; every enemy that was
\* not marked - including split offspring appended during the step - is
\* still in the live collection after the pass.
C28_RemovalPass ==
    [][LoopRan =>
         /\ ev'.marked = ToRemove
         /\ s'.enemies = Unmarked(ev'.atRemoval, ToRemove)
         /\ Len(s'.enemies) = Len(ev'.atRemoval) - Cardinality(ToRemove)
         /\ \A i \in (ev'.before + 1)..Len(ev'.atRemoval) :
               i \notin ev'.marked =>
                  \E j \in 1..Len(s'.enemies) : s'.enemies[j] = ev'.atRemoval[i]]_vars

\* One pass has removed an enemy gone beyond the margin and a splitter shot
\* dead, and has left both offspring of the splitter.
C28_Witness ==
    /\ ev.kind = "loop" /\ ev.marked = {1, 2} /\ Len(ev.atRemoval) = 4
    /\ ev.atRemoval[1].x < -220 /\ ev.atRemoval[2].hp = 0
    /\ Len(ev.offspring) = 2
    /\ s.enemies = <<ev.offspring[1].child, ev.offspring[2].child>>

\* C29: a non-piercing projectile damages at most one enemy over its whole
\* lifetime: it is consumed by its first enemy contact and decrements no
\* other enemy's health, even if it overlaps several live enemies in the
\* same step.
C29_OneEnemyPerArrow ==
    [][LoopRan =>
         \A a, b \in 1..Len(ev'.hits) :
            /\ ev'.hits[a].pi = ev'.hits[b].pi
            /\ ~s.projectiles[ev'.hits[a].pi].piercing
            => ev'.hits[a].ei = ev'.hits[b].ei]_vars

\* C30: the spawner adds at most one enemy per step, only on a step where the
\* spawn timer has reached max(35, spawnRate - 6 x wave) (spawnRate 180, 110,
\* 65 by difficulty), resetting the spawn timer to 0; the spawned archetype is
\* always one of the first min(wave + 1, 7) archetypes of the table, so an
\* archetype at position k (from 0) never spawns before wave k.
C30_Spawner ==
    [][LoopRan =>
         LET base == CASE difficulty = "easy" -> 180
                       [] difficulty = "normal" -> 110
                       [] difficulty = "hard" -> 65
             rate == IF base - 6 * s'.wave > 35 THEN base - 6 * s'.wave ELSE 35
             due  == s.spawnTimer + 1 >= rate
             born == ev'.before - Len(s.enemies)
         IN  /\ born = IF due THEN 1 ELSE 0
             /\ (ev'.spawned # 0) <=> due
             /\ due => /\ s'.spawnTimer = 0
                       /\ ev'.spawned \in 1..(IF s'.wave + 1 < 7 THEN s'.wave + 1 ELSE 7)
                       /\ ev'.spawned - 1 <= s'.wave
                       /\ ev'.atRemoval[ev'.before].id = ENEMY_TYPES[ev'.spawned].id
             /\ ~due => s'.spawnTimer = s.spawnTimer + 1]_vars

\* The step that starts wave 3 on normal difficulty has spawned a ghost, the
\* archetype at position 3, and has reset the spawn timer.
C30_Witness ==
    /\ ev.kind = "loop" /\ ev.waveUp /\ s.wave = 3
    /\ ev.spawned = 4 /\ s.spawnTimer = 0
    /\ Len(s.enemies) = 1 /\ s.enemies[1].id = ENEMY_TYPES[4].id

\* C31: after a successful shot, no further shot attempt succeeds until the
\* shoot cooldown set by that shot has counted down to 0: at least 12 steps
\* must elapse, or 4 steps if rapid fire was the active power-up when the
\* shot was fired; a rejected attempt does not restart the cooldown.  The
\* session starts with three arrows, so the k-th shot of a behaviour comes no
\* earlier than (k - 1) cooldowns after its start.
C31_Cooldown ==
    /\ [][ShotFired =>
             /\ s.shootCooldown = 0
             /\ s'.shootCooldown = IF s.activePowerup = "rapid" THEN 4 ELSE 12]_vars
    /\ [][(ShootStep /\ ~ev'.ran) => s'.shootCooldown = s.shootCooldown]_vars
    /\ [][LoopRan => s'.shootCooldown = IF s.shootCooldown > 0 THEN s.shootCooldown - 1 ELSE 0]_vars
    /\ [][s'.shootCooldown # s.shootCooldown => (ShotFired \/ LoopRan)]_vars
    /\ [](s.arrows < 3 =>
             (3 - s.arrows - 1) * (IF s.activePowerup = "rapid" THEN 4 ELSE 12) <= steps)

\* The second shot has gone off in the first step it could: 12 steps after
\* the first, an attempt in between having been rejected.
C31_Witness ==
    /\ ev.kind = "shoot" /\ ev.ran /\ s.activePowerup = "null"
    /\ s.arrows = 1 /\ steps = 12 /\ s.shootCooldown = 12

\* A point 60 units outside one of the four edges of the screen.
OutsideAnEdge(x, y) ==
    \/ (x = -60 \/ x = W + 60) /\ y >= 0 /\ y <= H
    \/ (y = -60 \/ y = H + 60) /\ x >= 0 /\ x <= W

\* C32: when a teleport-pattern enemy's countdown expires, only its position
\* (moved to a point 60 units outside one of the four screen edges) and its
\* countdown (reset to a positive value) change: its health, max health,
\* velocity, speed and split flag are unchanged, and no enemy is added to or
\* removed from the live collection by the relocation.
C32_Teleport ==
    [][LoopRan =>
         /\ \A i \in 1..Len(s.enemies) :
               (s.enemies[i].pattern = "teleport" /\ s.enemies[i].teleportTimer - 1 <= 0)
                  => \E k \in 1..Len(ev'.teleports) : ev'.teleports[k].i = i
         /\ \A k \in 1..Len(ev'.teleports) :
               LET t == ev'.teleports[k]
               IN  /\ t.i <= Len(s.enemies) /\ t.was = s.enemies[t.i]
                   /\ OutsideAnEdge(t.now.x, t.now.y)
                   /\ t.now.teleportTimer > 0
                   /\ t.now = [t.was EXCEPT !.x = t.now.x, !.y = t.now.y,
                                            !.teleportTimer = t.now.teleportTimer]
                   /\ t.i \in ev'.marked => \E h \in 1..Len(ev'.kills) : ev'.kills[h].ei = t.i
                   /\ t.i \notin ev'.marked =>
                         \E j \in 1..Len(s'.enemies) : s'.enemies[j] = t.now
         /\ ev'.before = Len(s.enemies) + (IF ev'.spawned # 0 THEN 1 ELSE 0)]_vars

\* A ghost that an arrow has hit has been moved outside an edge, away from
\* where its flight took it.
C32_Witness ==
    /\ ev.kind = "loop" /\ Len(ev.teleports) = 1
    /\ ev.teleports[1].now.hp < ev.teleports[1].now.maxHp
    /\ ev.teleports[1].now.x # ev.teleports[1].was.x + ev.teleports[1].was.vx
    /\ \E j \in 1..Len(s.enemies) : s.enemies[j] = ev.teleports[1].now

\* The enemies on the bow after the enemy update of the step.
OnTheBow ==
    {i \in 1..ev'.before :
        LET e == ev'.atRemoval[i]
        IN  (e.x - cx) * (e.x - cx) + (e.y - cy) * (e.y - cy) < (e.radius + 22) * (e.radius + 22)}

RECURSIVE DamageOf(_)
\* The sum of the difficulty-scaled damages of a set of enemies of the step,
\* in 1/10000 of a health point: damage x playerDamageMult x 0.017.
DamageOf(is) ==
    IF is = {} THEN 0
    ELSE LET i == CHOOSE j \in is : TRUE
             mult10 == CASE difficulty = "easy" -> 6
                         [] difficulty = "normal" -> 10
                         [] difficulty = "hard" -> 14
         IN  ev'.atRemoval[i].damage * mult10 * 17 + DamageOf(is \ {i})

\* C33: when k enemies contact the bow in the same step, every one of them
\* deals its damage and is removed: health after the step equals
\* max(0, health before - the sum of the k difficulty-scaled damages).
C33_AllContactsCount ==
    [][LoopRan =>
         /\ s'.hp = IF s.hp - DamageOf(OnTheBow) > 0 THEN s.hp - DamageOf(OnTheBow) ELSE 0
         /\ OnTheBow \subseteq ev'.marked
         /\ Len(ev'.contacts) = Cardinality(OnTheBow)
         /\ \A i \in OnTheBow : \A j \in 1..Len(s'.enemies) : s'.enemies[j] # ev'.atRemoval[i]]_vars

\* Two enemies have reached the bow in one step and the player has survived both.
C33_Witness ==
    /\ ev.kind = "loop" /\ Len(ev.contacts) = 2
    /\ ev.contacts[1].hpAfter = ev.contacts[1].hpBefore - ev.contacts[1].damage * diff.playerDamageMult10 * 17
    /\ s.hp = ev.contacts[2].hpAfter /\ s.hp > 0
    /\ s.hp < ev.contacts[1].hpAfter

\* The power-ups on the field were dropped no earlier than the 10th kill and
\* at least 8 kills apart.
DropsApart ==
    \A j \in 1..Len(s.powerups) :
       /\ s.powerups[j].kill >= 10
       /\ \A i \in 1..(j - 1) : s.powerups[j].kill - s.powerups[i].kill >= 8

\* The power-ups a step adds lie where an enemy killed by a projectile in
\* that step was, and no other handler adds any.
DropsAtDeaths ==
    /\ LoopRan =>
          \A j \in 1..Len(s'.powerups) :
             s'.powerups[j].kill > s.totalKills =>
                \E k \in 1..Len(ev'.kills) :
                   /\ ev'.atRemoval[ev'.kills[k].ei].x = s'.powerups[j].x
                   /\ ev'.atRemoval[ev'.kills[k].ei].y = s'.powerups[j].y
                   /\ ev'.atRemoval[ev'.kills[k].ei].hp <= 0
    /\ ~LoopRan => Len(s'.powerups) = Len(s.powerups)

\* C34: a power-up pickup is spawned only at the death position of an enemy
\* killed by a projectile, the first one no earlier than the 10th kill of the
\* session, and any two consecutive drops are separated by at least 8 kills.
C34_DropsEightApart == []DropsApart /\ [][DropsAtDeaths]_vars

\* C35: while the engine keeps stepping, nothing cosmetic or expiring stays
\* for ever.  A particle is in s.particles for fewer than 80 steps from its
\* creation (fewer than its maxLife, 65 or 80); a floating text has life
\* 55 less the steps since its creation, so that the 55th step removes it; a
\* power-up on the field has life 360 less the steps since the step of its
\* drop, and a step leaves it on the field, one step older, if it has more than
\* one step to live and the pointer is not on it: the 360th step after the
\* drop removes it, and no earlier step does without a pickup.
ParticlesExpire ==
    \A p \in BagToSet(s.particles) :
        /\ p.life > 0
        /\ p.maxLife <= 80
        /\ steps - p.born < p.maxLife
FloatsExpire ==
    \A i \in 1..Len(s.floats) :
        /\ s.floats[i].life > 0
        /\ s.floats[i].life = FloatLife - (steps - s.floats[i].born)
PowerupsExpire ==
    \A i \in 1..Len(s.powerups) :
        /\ s.powerups[i].life > 0
        /\ s.powerups[i].life = PowerupLife - (steps - s.powerups[i].born - 1)
PowerupsStay ==
    LoopRan =>
        \A i \in 1..Len(s.powerups) :
            s.powerups[i].life > 1 /\ ~PickedUp(s.powerups[i], mousePos)
                => \E j \in 1..Len(s'.powerups) :
                       s'.powerups[j] = [s.powerups[i] EXCEPT !.life = @ - 1]
C35_Expiry ==
    /\ [](ParticlesExpire /\ FloatsExpire /\ PowerupsExpire)
    /\ [][PowerupsStay]_vars

\* A power-up dropped in this behaviour, in its last step on the field 360
\* steps after the step of its drop, with the particles and the floating
\* text of the kill gone.
C35_Witness ==
    /\ \E i \in 1..Len(s.powerups) :
          /\ s.powerups[i].born >= 0
          /\ steps - s.powerups[i].born = PowerupLife
          /\ s.powerups[i].life = 1
    /\ s.particles = EmptyBag /\ s.floats = <<>>

\* C38: after every step and every shot attempt a power-up is active exactly
\* when the power-up timer is above 0: s.activePowerup is null if and only if
\* s.powerupTimer is 0.  A pickup sets both, the countdown clears the
\* power-up in the step that takes the timer to 0, and the shot of a bomb
\* clears both.
C38_ActiveIffTimer ==
    /\ []((s.activePowerup = "null") <=> (s.powerupTimer = 0))
    /\ [](s.powerupTimer >= 0 /\ s.powerupTimer <= PowerupTime)
    /\ [][ShotFired /\ s.activePowerup = "bomb"
            => s'.activePowerup = "null" /\ s'.powerupTimer = 0]_vars
    /\ [][LoopRan /\ s.powerupTimer = 1 /\ ev'.picked = <<>>
            => s'.activePowerup = "null" /\ s'.powerupTimer = 0]_vars
    /\ [][LoopRan /\ ev'.picked # <<>>
            => /\ s'.activePowerup = ev'.picked[Len(ev'.picked)].type
               /\ s'.powerupTimer > 0]_vars

\* A step has taken the timer of a bomb that was not fired from 1 to 0 and
\* has cleared the power-up, with a shot attempt refused since.
C38_Witness ==
    /\ s.activePowerup = "null" /\ s.powerupTimer = 0
    /\ ev.kind = "shoot" /\ ~ev.ran
    /\ s.particles # EmptyBag /\ s.floats # <<>>
    /\ steps = 1 /\ s.arrows = 3 /\ s.alive

\* C36: the session state is initialised only when a session starts (the
\* canvas is mounted, or the difficulty changes).  A step that keeps the
\* canvas mounted on the same difficulty and is no run of loop or shoot, such
\* as the effect running again after the host has rendered a snapshot, leaves
\* health, score, wave, ammo and the entity collections as they are.
C36_ResetOnlyAtStart ==
    [][(/\ screen = "game" /\ screen' = "game" /\ difficulty' = difficulty
        /\ ev'.kind \notin {"loop", "shoot"})
       => /\ s'.hp = s.hp /\ s'.score = s.score /\ s'.wave = s.wave
          /\ s'.arrows = s.arrows /\ s'.maxArrows = s.maxArrows
          /\ s'.enemies = s.enemies /\ s'.projectiles = s.projectiles
          /\ s'.powerups = s.powerups
          /\ s'.particles = s.particles /\ s'.floats = s.floats]_vars

\* C37: at most one call of loop is requested at any moment, none while the
\* canvas is not mounted, and each step takes the one request there is and
\* makes the next: the state advances once per frame, also when the effect
\* runs again, after a game over and in a session started after one.
C37_OneFramePending ==
    /\ [](rafPending \in {0, 1})
    /\ [](screen # "game" => rafPending = 0)
    /\ [][steps' # steps
            => steps' = steps + 1 /\ rafPending = 1 /\ rafPending' = 1]_vars
    /\ [][ev'.kind \in {"effect", "mount"} /\ ev' # ev => rafPending' = 1]_vars

\* The effect has run again in a session that was started after a game over
\* in a late wave, and one frame is requested.
C37_Witness ==
    /\ screen = "game" /\ ev.kind = "effect" /\ rafPending = 1
    /\ lastWave > 1 /\ gameOverLog = <<>>
    /\ s = ResetState(difficulty) /\ steps > 0

\* C39: at the end of every step of a session, from the first on, the
\* hudState of the host has the ammo, the max ammo, the health, the score
\* and the wave of the session state, on every difficulty and in a session
\* started after a game over.
C39_HudFollows ==
    [](screen = "game" /\ ev.kind = "loop" /\ ev.ran
        => /\ hudState.arrows = s.arrows /\ hudState.maxArrows = s.maxArrows
           /\ hudState.hp = s.hp /\ hudState.score = s.score
           /\ hudState.wave = s.wave)

\* C40: a piercing projectile takes a hit point off any given enemy at most
\* once, however many consecutive steps it overlaps the enemy on its way
\* through: no hit of a step is by a piercing projectile that has hit the
\* same enemy in a step before.
C40_PierceHitsOnce ==
    [](\A i \in 1..Len(ev.hits) : ~ev.hits[i].again)

====
